---- MODULE Spec2Model ----
(***************************************************************************)
(* Model of the MIDI synthesizer control core: the note router of the pin  *)
(* bank (lib/i2c_midi) as driven by src/midi_handler.c, the note router and *)
(* strike timer of the servo bank (lib/i2c_pca9685_midi), and the          *)
(* configuration store (src/configuration_settings.c) on its EEPROM.       *)
(***************************************************************************)
EXTENDS Integers, Sequences, FiniteSets, TLC

VARIABLES
    player,        \* which backend library the build drives: "i2c_midi" or "pca9685"
    i2c_midi_ctx,  \* i2c_midi_t: config, pin_state, and the expander driver's pin_state
    pca_ctx,       \* pca9685_midi_t: config, servo_states[16], initialized
    settings,      \* config_mgr.settings: the packed config_settings_t, as bytes
    eeprom,        \* the EEPROM bytes at eeprom_start_address
    mgr,           \* config_mgr.initialized and the handler's config_initialized
    time_us,       \* time_us_32(), the 32-bit microsecond clock, in units of 8 us
    pc,            \* position of the control flow of the specification at hand
    obs,           \* what the last operation was given, decided, issued and returned
    rx,            \* midi_handler.c: sysex_receiving, sysex_index, sysex_buffer
    ui             \* statics of button_handler.c, menu_handler.c, display_handler.c,
                   \* the millisecond clock and the level of the button's pin

vars == <<player, i2c_midi_ctx, pca_ctx, settings, eeprom, mgr, time_us, pc, obs, rx, ui>>

----------------------------------------------------------------------------
(* Program constants *)

MaxNote == 127
MaxNoteRange == 16
MIDI_NOTE_OFF == 128
MIDI_NOTE_ON == 144
SEMITONE_PLAY == 0
SEMITONE_IGNORE == 1
SEMITONE_SKIP == 2
IO_EXPANDER_PCF8574 == 0
IO_EXPANDER_CH423 == 1
ALL_CHANNELS == 255

Modes == {SEMITONE_PLAY, SEMITONE_IGNORE, SEMITONE_SKIP}
Notes == 0..MaxNote
NoteRanges == 1..MaxNoteRange

----------------------------------------------------------------------------
(* Fixed-width integer helpers (C's uint8_t / uint16_t arithmetic) *)

U8(x) == x % 256

Pow2(k) == 2 ^ k

TestBit(x, k) == (x \div Pow2(k)) % 2 = 1

SetBit(x, k) == IF TestBit(x, k) THEN x ELSE x + Pow2(k)

ClearBit(x, k) == IF TestBit(x, k) THEN x - Pow2(k) ELSE x

----------------------------------------------------------------------------
(* Semitone handling (identical in i2c_midi.c, i2c_pca9685_midi.c, mallet_midi.c) *)

\* A variant that takes F for F#.
is_semitone_f_for_fsharp(note) == (note % 12) \in {1, 3, 5, 8, 10}

is_semitone(note) == (note % 12) \in {1, 3, 6, 8, 10}

RECURSIVE high_note_loop(_, _, _)
high_note_loop(count, current_note, note_range) ==
    IF count < note_range /\ current_note < 127
    THEN IF ~is_semitone(current_note)
         THEN IF count + 1 = note_range
              THEN current_note
              ELSE high_note_loop(count + 1, U8(current_note + 1), note_range)
         ELSE high_note_loop(count, U8(current_note + 1), note_range)
    ELSE current_note

\* A variant without the Play branch: whole tones are counted in every mode.
calculate_high_note_always_counting(low_note, note_range, mode) ==
    high_note_loop(0, low_note, note_range)

calculate_high_note(low_note, note_range, mode) ==
    IF mode = SEMITONE_PLAY
    THEN U8(low_note + note_range - 1)
    ELSE high_note_loop(0, low_note, note_range)

RECURSIVE pca_high_note_loop(_, _, _)
pca_high_note_loop(count, current_note, note_range) ==
    IF count < note_range
    THEN LET c2 == IF ~is_semitone(current_note) THEN count + 1 ELSE count
         IN  IF c2 < note_range
             THEN pca_high_note_loop(c2, U8(current_note + 1), note_range)
             ELSE pca_high_note_loop(c2, current_note, note_range)
    ELSE current_note

pca_calculate_high_note(low_note, note_range, mode) ==
    IF mode = SEMITONE_PLAY
    THEN U8(low_note + note_range - 1)
    ELSE pca_high_note_loop(0, low_note, note_range)

RECURSIVE skip_loop(_)
skip_loop(next_note) ==
    IF next_note < 127 /\ is_semitone(next_note)
    THEN skip_loop(U8(next_note + 1))
    ELSE next_note

map_note_for_mode(note, mode) ==
    IF mode = SEMITONE_PLAY THEN note
    ELSE IF mode = SEMITONE_SKIP
         THEN IF is_semitone(note) THEN skip_loop(U8(note + 1)) ELSE note
         ELSE note

\* A variant that counts every note below, semitone or not.
notes_below(n, note) == IF n < note THEN note - n ELSE 0

\* for (n = low_note; n < note; n++) if (!is_semitone(n)) pin++;
RECURSIVE whole_tones_below(_, _)
whole_tones_below(n, note) ==
    IF n < note
    THEN (IF ~is_semitone(n) THEN 1 ELSE 0) + whole_tones_below(n + 1, note)
    ELSE 0

----------------------------------------------------------------------------
(* Observation of the last operation: its inputs, the routing decision, the *)
(* backend commands it issued and what it returned.                         *)

NoObs ==
    [op |-> "none", status |-> 0, note |-> 0, velocity |-> 0,
     kind |-> "Rejected", index |-> 0, result |-> FALSE, bus_ok |-> TRUE,
     cmds |-> <<>>]

----------------------------------------------------------------------------
(* Static variables of midi_handler.c (SysEx receiver), button_handler.c,   *)
(* menu_handler.c and display_handler.c, as the program starts with them.   *)

MENU_OPTION_RESET_DEFAULTS == 0
MENU_OPTION_SAVE_CONFIG == 1
MENU_OPTION_PLAYER_TYPE == 2
MENU_OPTION_MIDI_CHANNEL == 3
MENU_OPTION_NOTE_RANGE == 4
MENU_OPTION_SEMITONE_MODE == 5
MENU_OPTION_VIEW_SETTINGS == 6
MENU_OPTION_ALL_NOTES_OFF == 7
MENU_OPTION_EXIT == 8
MENU_OPTION_COUNT == 9

SYSEX_BUFFER_SIZE == 32

\* usb_fifo: the MIDI packets the USB endpoint holds for usb_midi_task, each as
\* the (status, data1, data2) its callback is given; usb_segments counts the
\* transfers the host has made.
RxBlank ==
    [sysex_receiving |-> FALSE, sysex_index |-> 0,
     sysex_buffer |-> [i \in 1..SYSEX_BUFFER_SIZE |-> 0],
     usb_fifo |-> <<>>, usb_segments |-> 0]

UiBlank ==
    [button_pin |-> 255, button_state |-> "IDLE", button_press_time |-> 0,
     button_hold_triggered |-> FALSE,
     button_callback |-> FALSE, button_last_activity |-> 0, midi_last_activity |-> 0,
     menu_active |-> FALSE, current_option |-> MENU_OPTION_RESET_DEFAULTS,
     channel_selection_active |-> FALSE, selected_channel |-> 1,
     settings_view_active |-> FALSE, settings_view_offset |-> 0,
     display_initialized |-> FALSE, is_home_screen |-> TRUE,
     screensaver_active |-> FALSE, screensaver_pending |-> FALSE,
     now_ms |-> 0, is_pressed |-> FALSE]

Rejected == [kind |-> "Rejected", index |-> 0]

----------------------------------------------------------------------------
(* Pin bank: lib/i2c_midi/i2c_midi.c *)

I2C_MIDI_DEFAULT_NOTE_RANGE == 8
I2C_MIDI_DEFAULT_LOW_NOTE == 60
I2C_MIDI_DEFAULT_CHANNEL == 10
PCF8575_NUM_PINS == 16
CH423_NUM_PINS == 16
PCF857X_DEFAULT_ADDRESS == 32

\* A variant that takes the size of the note window for the number of pins.
io_get_max_pins_window(config) == config.note_range

io_get_max_pins(config) ==
    IF config.io_type = IO_EXPANDER_PCF8574 THEN PCF8575_NUM_PINS
    ELSE IF config.io_type = IO_EXPANDER_CH423 THEN CH423_NUM_PINS
    ELSE 0

\* A variant that takes every Note-On for a NoteOn, whatever its velocity.
i2c_note_kind_any_velocity(message_type, velocity) ==
    IF message_type = MIDI_NOTE_ON THEN "NoteOn"
    ELSE IF message_type = MIDI_NOTE_OFF THEN "NoteOff"
    ELSE "Rejected"

\* The classification of the message type and velocity.
i2c_note_kind(message_type, velocity) ==
    IF message_type = MIDI_NOTE_ON /\ velocity > 0 THEN "NoteOn"
    ELSE IF message_type = MIDI_NOTE_OFF \/ (message_type = MIDI_NOTE_ON /\ velocity = 0)
         THEN "NoteOff"
    ELSE "Rejected"

\* i2c_midi_process_message up to the call of i2c_midi_set_pin: the routing
\* decision (Rejected, or NoteOn / NoteOff of a pin).
i2c_route(config, status, note, velocity) ==
    LET message_type == status - (status % 16)
        channel == (status % 16) + 1
        mode == config.semitone_mode
    IN  IF channel # config.midi_channel THEN Rejected
        ELSE IF is_semitone(note) /\ mode = SEMITONE_IGNORE THEN Rejected
        ELSE LET n == IF is_semitone(note) /\ mode = SEMITONE_SKIP
                      THEN map_note_for_mode(note, mode)
                      ELSE note
             IN  IF n < config.low_note \/ n > config.high_note THEN Rejected
                 ELSE LET pin == IF mode = SEMITONE_PLAY
                                 THEN U8(n - config.low_note)
                                 ELSE U8(whole_tones_below(config.low_note, n))
                      IN  IF pin >= io_get_max_pins(config) THEN Rejected
                          ELSE IF i2c_note_kind(message_type, velocity) = "Rejected"
                               THEN Rejected
                          ELSE [kind |-> i2c_note_kind(message_type, velocity),
                                index |-> pin]

\* io_set_pin and the driver's set_pin/write: the expander's pin_state is
\* updated only when the bus write succeeds.
\* Result: [drv (driver pin_state), ok, cmds (bus writes attempted)].
io_set_pin(ctx, pin, state, bus_ok) ==
    LET limit == IF ctx.config.io_type = IO_EXPANDER_PCF8574 THEN 8
                 ELSE IF ctx.config.io_type = IO_EXPANDER_CH423 THEN 16
                 ELSE 0
        new_state == IF state THEN SetBit(ctx.drv_pin_state, pin)
                     ELSE ClearBit(ctx.drv_pin_state, pin)
    IN  IF pin >= limit
        THEN [drv |-> ctx.drv_pin_state, ok |-> FALSE, cmds |-> <<>>]
        ELSE [drv |-> IF bus_ok THEN new_state ELSE ctx.drv_pin_state,
              ok |-> bus_ok,
              cmds |-> <<[dev |-> "io", target |-> pin, value |-> new_state, ok |-> bus_ok]>>]

\* ctx->pin_state is a uint8_t: |= (1 << pin) and &= ~(1 << pin) truncate.
set_pin_state(pin_state, pin, state) ==
    IF state THEN U8(SetBit(pin_state, pin)) ELSE ClearBit(pin_state, pin)

\* Result: [ctx, ok, cmds].
i2c_midi_set_pin(ctx, pin, state, bus_ok) ==
    IF pin >= io_get_max_pins(ctx.config)
    THEN [ctx |-> ctx, ok |-> FALSE, cmds |-> <<>>]
    ELSE LET w == io_set_pin(ctx, pin, state, bus_ok)
         IN  [ctx |-> [ctx EXCEPT !.pin_state = set_pin_state(ctx.pin_state, pin, state),
                                  !.drv_pin_state = w.drv],
              ok |-> w.ok, cmds |-> w.cmds]

\* Variant: the pin is written before the message type is looked at, a
\* message that is no note message clearing the pin its note maps to.
i2c_midi_process_message_pin_before_type(ctx, status, note, velocity, bus_ok) ==
    LET r == i2c_route(ctx.config, status, note, velocity)
        as_off == i2c_route(ctx.config, MIDI_NOTE_OFF + (status % 16), note, velocity)
    IN  IF r.kind = "Rejected" /\ as_off.kind = "Rejected"
        THEN [ctx |-> ctx, route |-> r, ok |-> FALSE, cmds |-> <<>>]
        ELSE LET s == i2c_midi_set_pin(ctx, as_off.index, r.kind = "NoteOn", bus_ok)
             IN  [ctx |-> s.ctx, route |-> r, ok |-> s.ok /\ r.kind # "Rejected",
                  cmds |-> s.cmds]

\* Result: [ctx, route, ok, cmds].
i2c_midi_process_message(ctx, status, note, velocity, bus_ok) ==
    LET r == i2c_route(ctx.config, status, note, velocity)
    IN  IF r.kind = "Rejected"
        THEN [ctx |-> ctx, route |-> r, ok |-> FALSE, cmds |-> <<>>]
        ELSE LET s == i2c_midi_set_pin(ctx, r.index, r.kind = "NoteOn", bus_ok)
             IN  [ctx |-> s.ctx, route |-> r, ok |-> s.ok, cmds |-> s.cmds]

i2c_midi_init_with_config(config) ==
    [config |-> [config EXCEPT !.high_note =
                    calculate_high_note(config.low_note, config.note_range,
                                        config.semitone_mode)],
     pin_state |-> 0,
     drv_pin_state |-> 0]

i2c_midi_init ==
    i2c_midi_init_with_config(
        [note_range |-> I2C_MIDI_DEFAULT_NOTE_RANGE,
         low_note |-> I2C_MIDI_DEFAULT_LOW_NOTE,
         high_note |-> 0,
         midi_channel |-> I2C_MIDI_DEFAULT_CHANNEL,
         io_type |-> IO_EXPANDER_PCF8574,
         semitone_mode |-> SEMITONE_PLAY])

i2c_midi_set_semitone_mode(ctx, mode) ==
    IF mode > SEMITONE_SKIP THEN ctx
    ELSE [ctx EXCEPT !.config.semitone_mode = mode,
                     !.config.high_note =
                        calculate_high_note(ctx.config.low_note, ctx.config.note_range, mode)]

\* Result: [ctx, ok, cmds].
i2c_midi_reset(ctx, bus_ok) ==
    IF ctx.config.io_type \notin {IO_EXPANDER_PCF8574, IO_EXPANDER_CH423}
    THEN [ctx |-> [ctx EXCEPT !.pin_state = 0], ok |-> FALSE, cmds |-> <<>>]
    ELSE [ctx |-> [ctx EXCEPT !.pin_state = 0,
                              !.drv_pin_state = IF bus_ok THEN 0 ELSE @],
          ok |-> bus_ok,
          cmds |-> <<[dev |-> "io", target |-> ALL_CHANNELS, value |-> 0, ok |-> bus_ok]>>]

----------------------------------------------------------------------------
(* Servo bank: lib/i2c_pca9685_midi/i2c_pca9685_midi.c *)

PCA9685_MIDI_DEFAULT_NOTE_RANGE == 16
PCA9685_MIDI_DEFAULT_LOW_NOTE == 60
PCA9685_MIDI_DEFAULT_CHANNEL == 10
PCA9685_MIDI_DEFAULT_MIN_DEGREE == 0
PCA9685_MIDI_DEFAULT_MAX_DEGREE == 180
PCA9685_MIDI_DEFAULT_STRIKE_ANGLE == 120
PCA9685_MIDI_DEFAULT_REST_ANGLE == 30
PCA9685_MIDI_DEFAULT_STRIKE_DURATION_MS == 50
PCA9685_STRIKE_MODE_SIMPLE == 0
PCA9685_STRIKE_MODE_POSITION == 1
NumServos == 16

U16(x) == x % 65536

\* The 32-bit microsecond counter is kept in units of 8 us (every clock value
\* and duration of the model is a multiple of 8 us), so that it wraps at
\* 2^32 us = 2^29 units, which TLC's integers can hold.
ClockModulus == 536870912

UsPerUnit == 8

U32(x) == x % ClockModulus

Servos == 0..(NumServos - 1)

\* Result: [ok, servo_index].
pca9685_midi_note_to_servo(ctx, note) ==
    LET c == ctx.config
        no == [ok |-> FALSE, servo_index |-> 0]
    IN  IF ~ctx.initialized THEN no
        ELSE IF note < c.low_note \/ note > c.high_note THEN no
        ELSE IF c.semitone_mode = SEMITONE_IGNORE /\ is_semitone(note) THEN no
        ELSE LET skipped == c.semitone_mode = SEMITONE_SKIP /\ is_semitone(note)
                 n == IF skipped THEN U8(note + 1) ELSE note
             IN  IF skipped /\ n > c.high_note THEN no
                 ELSE LET index == IF c.semitone_mode = SEMITONE_PLAY
                                   THEN U8(n - c.low_note)
                                   ELSE U8(whole_tones_below(c.low_note, n))
                      IN  IF index >= c.note_range THEN no
                          ELSE [ok |-> TRUE, servo_index |-> index]

\* pca9685_set_servo_angle: fails when the driver is not initialised, the
\* channel is above 15 (pca9685_set_pwm) or the bus write fails.
pca9685_set_servo_angle(ctx, channel, degrees, bus_ok) ==
    ctx.driver_initialized /\ channel <= 15 /\ bus_ok

strike_angle_of(c, servo_index) ==
    IF c.strike_mode = PCA9685_STRIKE_MODE_SIMPLE THEN c.strike_angle
    ELSE IF c.note_range > 1
         THEN U16(c.min_degree
                  + ((servo_index * (c.max_degree - c.min_degree)) \div (c.note_range - 1)))
         ELSE U16((c.min_degree + c.max_degree) \div 2)

\* Result: [ctx, ok, cmds].
pca9685_midi_strike_servo(ctx, servo_index, now, bus_ok) ==
    IF ~ctx.initialized \/ servo_index >= 16
    THEN [ctx |-> ctx, ok |-> FALSE, cmds |-> <<>>]
    ELSE LET angle == strike_angle_of(ctx.config, servo_index)
             sent == pca9685_set_servo_angle(ctx, servo_index, angle, bus_ok)
             cmd == <<[dev |-> "servo", target |-> servo_index, value |-> angle, ok |-> sent]>>
         IN  IF ~sent
             THEN [ctx |-> ctx, ok |-> FALSE, cmds |-> cmd]
             ELSE [ctx |-> [ctx EXCEPT !.servo_states[servo_index] =
                              [current_angle |-> angle,
                               striking |-> TRUE,
                               return_time |->
                                  U32(now + (ctx.config.strike_duration_ms * 1000) \div UsPerUnit)]],
                   ok |-> TRUE, cmds |-> cmd]

RestState(c) == [current_angle |-> c.rest_angle, striking |-> FALSE, return_time |-> 0]

\* The routing decision of pca9685_midi_process_message.
pca_route(ctx, status, note, velocity) ==
    LET message_type == status - (status % 16)
        channel == status % 16
        r == pca9685_midi_note_to_servo(ctx, note)
    IN  IF ~ctx.initialized THEN Rejected
        ELSE IF channel # ctx.config.midi_channel THEN Rejected
        ELSE IF message_type = MIDI_NOTE_ON /\ velocity > 0
             THEN IF r.ok THEN [kind |-> "NoteOn", index |-> r.servo_index] ELSE Rejected
        ELSE IF message_type = MIDI_NOTE_OFF
                \/ (message_type = MIDI_NOTE_ON /\ velocity = 0)
             THEN IF r.ok THEN [kind |-> "NoteOff", index |-> r.servo_index] ELSE Rejected
        ELSE Rejected

\* Variant: the NoteOff branch commands the rest angle but leaves the channel's
\* striking flag and return time as they were.
pca9685_midi_process_message_note_off_keeps_timer(ctx, status, note, velocity, now, bus_ok) ==
    LET r == pca_route(ctx, status, note, velocity)
    IN  IF r.kind = "NoteOn"
        THEN LET s == pca9685_midi_strike_servo(ctx, r.index, now, bus_ok)
             IN  [ctx |-> s.ctx, route |-> r, ok |-> s.ok, cmds |-> s.cmds]
        ELSE IF r.kind = "NoteOff"
        THEN LET sent == pca9685_set_servo_angle(ctx, r.index, ctx.config.rest_angle, bus_ok)
             IN  [ctx |-> [ctx EXCEPT !.servo_states[r.index].current_angle =
                                          ctx.config.rest_angle],
                  route |-> r, ok |-> TRUE,
                  cmds |-> <<[dev |-> "servo", target |-> r.index,
                              value |-> ctx.config.rest_angle, ok |-> sent]>>]
        ELSE [ctx |-> ctx, route |-> r, ok |-> FALSE, cmds |-> <<>>]

\* Result: [ctx, route, ok, cmds].
pca9685_midi_process_message(ctx, status, note, velocity, now, bus_ok) ==
    LET r == pca_route(ctx, status, note, velocity)
    IN  IF r.kind = "NoteOn"
        THEN LET s == pca9685_midi_strike_servo(ctx, r.index, now, bus_ok)
             IN  [ctx |-> s.ctx, route |-> r, ok |-> s.ok, cmds |-> s.cmds]
        ELSE IF r.kind = "NoteOff"
        THEN LET sent == pca9685_set_servo_angle(ctx, r.index, ctx.config.rest_angle, bus_ok)
             IN  [ctx |-> [ctx EXCEPT !.servo_states[r.index] = RestState(ctx.config)],
                  route |-> r, ok |-> TRUE,
                  cmds |-> <<[dev |-> "servo", target |-> r.index,
                              value |-> ctx.config.rest_angle, ok |-> sent]>>]
        ELSE [ctx |-> ctx, route |-> r, ok |-> FALSE, cmds |-> <<>>]

due(st, now) == st.striking /\ st.return_time > 0 /\ now >= st.return_time

RECURSIVE rest_cmds(_, _, _, _)
rest_cmds(ctx, i, now, bus_ok) ==
    IF i >= 16 THEN <<>>
    ELSE (IF due(ctx.servo_states[i], now)
          THEN <<[dev |-> "servo", target |-> i, value |-> ctx.config.rest_angle,
                  ok |-> pca9685_set_servo_angle(ctx, i, ctx.config.rest_angle, bus_ok)]>>
          ELSE <<>>) \o rest_cmds(ctx, i + 1, now, bus_ok)

\* Result: [ctx, cmds].
pca9685_midi_update(ctx, now, bus_ok) ==
    IF ~ctx.initialized THEN [ctx |-> ctx, cmds |-> <<>>]
    ELSE [ctx |-> [ctx EXCEPT !.servo_states =
                      [i \in Servos |-> IF due(ctx.servo_states[i], now)
                                        THEN RestState(ctx.config)
                                        ELSE ctx.servo_states[i]]],
          cmds |-> rest_cmds(ctx, 0, now, bus_ok)]

pca9685_midi_set_semitone_mode(ctx, mode) ==
    IF ~ctx.initialized THEN ctx
    ELSE [ctx EXCEPT !.config.semitone_mode = mode,
                     !.config.high_note =
                        pca_calculate_high_note(ctx.config.low_note, ctx.config.note_range, mode)]

pca9685_midi_set_strike_mode(ctx, mode) ==
    IF ~ctx.initialized THEN ctx
    ELSE [ctx EXCEPT !.config.strike_mode = mode]

\* Variant: all servos are commanded to the rest angle and their angles are
\* recorded, but the striking flags and return times are left as they were.
pca9685_midi_all_notes_off_angles_only(ctx, bus_ok) ==
    IF ~ctx.initialized THEN [ctx |-> ctx, ok |-> FALSE, cmds |-> <<>>]
    ELSE [ctx |-> [ctx EXCEPT !.servo_states =
                      [i \in Servos |-> [ctx.servo_states[i] EXCEPT
                                            !.current_angle = ctx.config.rest_angle]]],
          ok |-> TRUE,
          cmds |-> <<[dev |-> "servo", target |-> ALL_CHANNELS,
                      value |-> ctx.config.rest_angle,
                      ok |-> ctx.driver_initialized /\ bus_ok]>>]

\* Result: [ctx, ok, cmds].
pca9685_midi_all_notes_off(ctx, bus_ok) ==
    IF ~ctx.initialized THEN [ctx |-> ctx, ok |-> FALSE, cmds |-> <<>>]
    ELSE [ctx |-> [ctx EXCEPT !.servo_states = [i \in Servos |-> RestState(ctx.config)]],
          ok |-> TRUE,
          cmds |-> <<[dev |-> "servo", target |-> ALL_CHANNELS,
                      value |-> ctx.config.rest_angle,
                      ok |-> ctx.driver_initialized /\ bus_ok]>>]

\* The context before pca9685_midi_init_with_config has succeeded (static storage).
PcaBlank ==
    [config |-> [note_range |-> 0, low_note |-> 0, high_note |-> 0, midi_channel |-> 0,
                 semitone_mode |-> SEMITONE_PLAY, strike_mode |-> PCA9685_STRIKE_MODE_SIMPLE,
                 rest_angle |-> 0, strike_angle |-> 0, strike_duration_ms |-> 0,
                 min_degree |-> 0, max_degree |-> 0],
     servo_states |-> [i \in Servos |-> [current_angle |-> 0, striking |-> FALSE,
                                         return_time |-> 0]],
     initialized |-> FALSE,
     driver_initialized |-> FALSE]

\* driver_ok: whether pca9685_init succeeded (its bus writes went through).
pca9685_midi_init_with_config(ctx, config, driver_ok) ==
    LET nr == IF config.note_range > 16 THEN 16 ELSE config.note_range
        c == [config EXCEPT !.note_range = nr,
                            !.high_note = pca_calculate_high_note(config.low_note, nr,
                                                                  config.semitone_mode)]
    IN  IF ~driver_ok
        THEN [ctx EXCEPT !.config = c, !.driver_initialized = FALSE]
        ELSE [config |-> c,
              servo_states |-> [i \in Servos |-> RestState(c)],
              initialized |-> TRUE,
              driver_initialized |-> TRUE]

PcaDefaultConfig ==
    [note_range |-> PCA9685_MIDI_DEFAULT_NOTE_RANGE,
     low_note |-> PCA9685_MIDI_DEFAULT_LOW_NOTE,
     high_note |-> 0,
     midi_channel |-> PCA9685_MIDI_DEFAULT_CHANNEL,
     semitone_mode |-> SEMITONE_PLAY,
     strike_mode |-> PCA9685_STRIKE_MODE_SIMPLE,
     rest_angle |-> PCA9685_MIDI_DEFAULT_REST_ANGLE,
     strike_angle |-> PCA9685_MIDI_DEFAULT_STRIKE_ANGLE,
     strike_duration_ms |-> PCA9685_MIDI_DEFAULT_STRIKE_DURATION_MS,
     min_degree |-> PCA9685_MIDI_DEFAULT_MIN_DEGREE,
     max_degree |-> PCA9685_MIDI_DEFAULT_MAX_DEGREE]

pca9685_midi_init(ctx, driver_ok) == pca9685_midi_init_with_config(ctx, PcaDefaultConfig, driver_ok)

----------------------------------------------------------------------------
(* src/midi_handler.c: the setters of the pin bank's routing policy *)

midi_handler_set_semitone_mode(ctx, mode) ==
    IF mode > 2 THEN ctx ELSE i2c_midi_set_semitone_mode(ctx, mode)

\* Result: [ctx, ok].
midi_handler_set_channel(ctx, channel) ==
    IF channel > 15 /\ channel # ALL_CHANNELS
    THEN [ctx |-> ctx, ok |-> FALSE]
    ELSE [ctx |-> [ctx EXCEPT !.config.midi_channel = channel], ok |-> TRUE]

\* Result: [ctx, ok].
midi_handler_set_note_range(ctx, min_note, max_note) ==
    IF min_note > 127 \/ max_note > 127 \/ min_note > max_note
    THEN [ctx |-> ctx, ok |-> FALSE]
    ELSE [ctx |-> [ctx EXCEPT !.config.low_note = min_note,
                              !.config.high_note = max_note,
                              !.config.note_range = U8(max_note - min_note + 1)],
          ok |-> TRUE]

midi_handler_get_channel(ctx) == U8(ctx.config.midi_channel + 1)

\* midi_handler_process_message outside a SysEx transfer: the message goes
\* to i2c_midi_process_message, whose result is dropped.
midi_handler_process_message(ctx, status, data1, data2, bus_ok) ==
    i2c_midi_process_message(ctx, status, data1, data2, bus_ok)

midi_handler_all_notes_off(ctx, bus_ok) == i2c_midi_reset(ctx, bus_ok)

----------------------------------------------------------------------------
(* Configuration store: src/configuration_settings.c on the AT24CXX EEPROM  *)
(* (lib/i2c_memory/drivers/at24cxx_driver.c).  config_settings_t is packed: *)
(* the record is the sequence of its 33 bytes, little-endian.               *)

CONFIG_MAGIC_NUMBER == 1297307982
CONFIG_VERSION == 1
DEFAULT_MIDI_CHANNEL == 10
DEFAULT_NOTE_RANGE == 8
DEFAULT_LOW_NOTE == 60
DEFAULT_SEMITONE_MODE == 0
DEFAULT_PLAYER_TYPE == 0
DEFAULT_IO_EXPANDER_TYPE == 0
DEFAULT_IO_EXPANDER_ADDRESS == 32
DEFAULT_DISPLAY_ENABLED == 1
DEFAULT_DISPLAY_BRIGHTNESS == 128
DEFAULT_DISPLAY_TIMEOUT == 30
AT24CXX_PAGE_SIZE_16 == 16
CRC16_INIT == 65535
CRC16_POLY == 40961
SettingsSize == 33
ReservedSize == 16

\* Offsets of the fields in the packed record (1-based).
OffVersion == 5
OffMidiChannel == 6
OffNoteRange == 7
OffLowNote == 8
OffSemitoneMode == 9
OffPlayerType == 10
OffIoExpanderType == 11
OffIoExpanderAddress == 12
OffDisplayEnabled == 13
OffDisplayBrightness == 14
OffDisplayTimeout == 15
OffReserved == 16
OffCrc == 32

\* Bitwise exclusive or (C's ^) of two unsigned values.
XorBits[a \in Nat, b \in Nat] ==
    IF a = 0 THEN b
    ELSE IF b = 0 THEN a
    ELSE (((a % 2) + (b % 2)) % 2) + 2 * XorBits[a \div 2, b \div 2]

Xor(a, b) == XorBits[a, b]

\* The inner loop: eight shifts of the reflected CRC-16.
crc16_shift[crc \in Nat, j \in Nat] ==
    IF j >= 8 THEN crc
    ELSE crc16_shift[IF crc % 2 = 1 THEN Xor(crc \div 2, CRC16_POLY) ELSE crc \div 2,
                     j + 1]

\* loop[crc, i] is the value of crc at the end, from that of crc before byte i.
calculate_crc16(data, length) ==
    LET loop[crc \in Nat, i \in Nat] ==
            IF i > length THEN crc
            ELSE loop[crc16_shift[Xor(crc, data[i]), 0], i + 1]
    IN  loop[CRC16_INIT, 1]

\* The bytes of a uint32_t / uint16_t in memory.
Bytes32(x) == <<x % 256, (x \div 256) % 256, (x \div 65536) % 256, (x \div 16777216) % 256>>

Bytes16(x) == <<x % 256, (x \div 256) % 256>>

MagicOk(rec) == SubSeq(rec, 1, 4) = Bytes32(CONFIG_MAGIC_NUMBER)

StoredCrc(rec) == rec[OffCrc] + 256 * rec[OffCrc + 1]

\* s->crc = calculate_crc16((uint8_t*)s, sizeof(config_settings_t) - sizeof(s->crc))
WithCrc(rec) ==
    SubSeq(rec, 1, SettingsSize - 2)
        \o Bytes16(calculate_crc16(rec, SettingsSize - 2))

\* A variant that accepts every record carrying the magic number.
config_validate_magic_only(rec) == MagicOk(rec)

\* A variant that checks the magic number and the ranges but not the checksum.
config_validate_no_crc(rec) ==
    /\ MagicOk(rec)
    /\ ~(rec[OffMidiChannel] < 1 \/ rec[OffMidiChannel] > 16)
    /\ ~(rec[OffNoteRange] < 1 \/ rec[OffNoteRange] > 16)
    /\ ~(rec[OffLowNote] > 127)
    /\ ~(rec[OffSemitoneMode] > 2)

config_validate(rec) ==
    /\ MagicOk(rec)
    /\ calculate_crc16(rec, SettingsSize - 2) = StoredCrc(rec)
    /\ ~(rec[OffMidiChannel] < 1 \/ rec[OffMidiChannel] > 16)
    /\ ~(rec[OffNoteRange] < 1 \/ rec[OffNoteRange] > 16)
    /\ ~(rec[OffLowNote] > 127)
    /\ ~(rec[OffSemitoneMode] > 2)

\* The record config_load_defaults leaves in ctx->settings.
config_load_defaults ==
    WithCrc(Bytes32(CONFIG_MAGIC_NUMBER)
            \o <<CONFIG_VERSION,
                 DEFAULT_MIDI_CHANNEL, DEFAULT_NOTE_RANGE, DEFAULT_LOW_NOTE,
                 DEFAULT_SEMITONE_MODE, DEFAULT_PLAYER_TYPE,
                 DEFAULT_IO_EXPANDER_TYPE, DEFAULT_IO_EXPANDER_ADDRESS,
                 DEFAULT_DISPLAY_ENABLED, DEFAULT_DISPLAY_BRIGHTNESS,
                 DEFAULT_DISPLAY_TIMEOUT>>
            \o [i \in 1..ReservedSize |-> 0]
            \o <<0, 0>>)

\* The page-sized chunks at24cxx_write splits a write at address 0 into:
\* chunk k covers the bytes ChunkFirst(k) .. ChunkLast(k, length).
NumChunks(length) == (length + AT24CXX_PAGE_SIZE_16 - 1) \div AT24CXX_PAGE_SIZE_16

ChunkFirst(k) == (k - 1) * AT24CXX_PAGE_SIZE_16 + 1

ChunkLast(k, length) ==
    IF k * AT24CXX_PAGE_SIZE_16 < length THEN k * AT24CXX_PAGE_SIZE_16 ELSE length

\* at24cxx_write: the page writes go out in order and the first one the bus
\* refuses ends the call; pages_ok is the number of page writes that succeed.
\* Result: [mem, ok, cmds].
at24cxx_write(mem, data, length, pages_ok) ==
    LET n == NumChunks(length)
        done == IF pages_ok < n THEN pages_ok ELSE n
        tried == IF pages_ok < n THEN pages_ok + 1 ELSE n
    IN  [mem |-> [i \in 1..Len(mem) |->
                     IF i <= length /\ i <= ChunkLast(done, length) /\ done > 0
                     THEN data[i] ELSE mem[i]],
         ok |-> pages_ok >= n,
         cmds |-> [k \in 1..tried |->
                     [dev |-> "eeprom", target |-> ChunkFirst(k) - 1,
                      value |-> SubSeq(data, ChunkFirst(k), ChunkLast(k, length)),
                      ok |-> k <= done]]]

\* at24cxx_read. Result: [ok, data].
at24cxx_read(mem, length, read_ok) ==
    [ok |-> read_ok, data |-> SubSeq(mem, 1, length)]

\* A variant of config_save that writes the record without recomputing the
\* checksum.
config_save_stale_crc(rec, mem, pages_ok) ==
    [settings |-> rec,
     mem |-> at24cxx_write(mem, rec, SettingsSize, pages_ok).mem,
     ok |-> at24cxx_write(mem, rec, SettingsSize, pages_ok).ok,
     cmds |-> at24cxx_write(mem, rec, SettingsSize, pages_ok).cmds]

\* config_save. Result: [settings, mem, ok, cmds].
config_save(rec, mem, pages_ok) ==
    LET s == WithCrc(rec)
        w == at24cxx_write(mem, s, SettingsSize, pages_ok)
    IN  [settings |-> s, mem |-> w.mem, ok |-> w.ok, cmds |-> w.cmds]

\* config_load. Result: [settings, mem, ok, kind ("Loaded" / "Defaults"), cmds].
config_load(rec, mem, read_ok, pages_ok) ==
    LET r == at24cxx_read(mem, SettingsSize, read_ok)
    IN  IF r.ok /\ config_validate(r.data)
        THEN [settings |-> r.data, mem |-> mem, ok |-> TRUE, kind |-> "Loaded",
              cmds |-> <<>>]
        ELSE LET sv == config_save(config_load_defaults, mem, pages_ok)
             IN  [settings |-> sv.settings, mem |-> sv.mem, ok |-> sv.ok,
                  kind |-> "Defaults", cmds |-> sv.cmds]

\* config_init after at24cxx_init: initialized is set when config_load succeeds.
\* Result: as config_load, and initialized.
config_init(rec, mem, read_ok, pages_ok) ==
    LET l == config_load(rec, mem, read_ok, pages_ok)
    IN  [settings |-> l.settings, mem |-> l.mem, ok |-> l.ok, kind |-> l.kind,
         cmds |-> l.cmds, initialized |-> l.ok]

\* A rejected or refused configuration call: nothing written, nothing changed.
ConfigRefused(rec, mem) == [settings |-> rec, mem |-> mem, ok |-> FALSE, cmds |-> <<>>]

\* config_update_midi_setting: the range check of the field named by param,
\* then the assignment, then config_save.  Result: [settings, mem, ok, cmds].
config_update_midi_setting(initialized, rec, mem, param, value, pages_ok) ==
    IF ~initialized THEN ConfigRefused(rec, mem)
    ELSE CASE param = 0 ->
                 IF value < 1 \/ value > 16 THEN ConfigRefused(rec, mem)
                 ELSE config_save([rec EXCEPT ![OffMidiChannel] = value], mem, pages_ok)
           [] param = 1 ->
                 IF value < 1 \/ value > 16 THEN ConfigRefused(rec, mem)
                 ELSE config_save([rec EXCEPT ![OffNoteRange] = value], mem, pages_ok)
           [] param = 2 ->
                 IF value > 127 THEN ConfigRefused(rec, mem)
                 ELSE config_save([rec EXCEPT ![OffLowNote] = value], mem, pages_ok)
           [] param = 3 ->
                 IF value > 2 THEN ConfigRefused(rec, mem)
                 ELSE config_save([rec EXCEPT ![OffSemitoneMode] = value], mem, pages_ok)
           [] OTHER -> ConfigRefused(rec, mem)

\* A variant of config_update_io_settings without the check of the type.
config_update_io_settings_any_type(initialized, rec, mem, type, address, pages_ok) ==
    IF ~initialized THEN ConfigRefused(rec, mem)
    ELSE config_save([rec EXCEPT ![OffIoExpanderType] = type,
                                 ![OffIoExpanderAddress] = address], mem, pages_ok)

\* config_update_io_settings.  Result: [settings, mem, ok, cmds].
config_update_io_settings(initialized, rec, mem, type, address, pages_ok) ==
    IF ~initialized THEN ConfigRefused(rec, mem)
    ELSE IF type > 1 THEN ConfigRefused(rec, mem)
    ELSE config_save([rec EXCEPT ![OffIoExpanderType] = type,
                                 ![OffIoExpanderAddress] = address], mem, pages_ok)

\* A variant of config_erase that zeroes the region and does not save the
\* defaults.
config_erase_without_save(initialized, rec, mem, zero_pages_ok, save_pages_ok) ==
    IF ~initialized THEN ConfigRefused(rec, mem)
    ELSE [settings |-> config_load_defaults,
          mem |-> at24cxx_write(mem, [i \in 1..SettingsSize |-> 0], SettingsSize,
                                zero_pages_ok).mem,
          ok |-> at24cxx_write(mem, [i \in 1..SettingsSize |-> 0], SettingsSize,
                               zero_pages_ok).ok,
          cmds |-> at24cxx_write(mem, [i \in 1..SettingsSize |-> 0], SettingsSize,
                                 zero_pages_ok).cmds]

\* config_erase: the defaults are loaded, the record's region is overwritten
\* with zero bytes, and the defaults are saved; each of the two writes goes
\* page by page and ends at the first page the bus refuses.
\* Result: [settings, mem, ok, cmds].
config_erase(initialized, rec, mem, zero_pages_ok, save_pages_ok) ==
    IF ~initialized THEN ConfigRefused(rec, mem)
    ELSE LET z == at24cxx_write(mem, [i \in 1..SettingsSize |-> 0], SettingsSize,
                                zero_pages_ok)
         IN  IF ~z.ok
             THEN [settings |-> config_load_defaults, mem |-> z.mem, ok |-> FALSE,
                   cmds |-> z.cmds]
             ELSE LET sv == config_save(config_load_defaults, z.mem, save_pages_ok)
                  IN  [settings |-> sv.settings, mem |-> sv.mem, ok |-> sv.ok,
                       cmds |-> z.cmds \o sv.cmds]

\* config_get_settings: NULL (here <<>>) until the manager is initialized.
config_get_settings(initialized, rec) == IF initialized THEN rec ELSE <<>>

\* midi_handler_save_config: the router's running policy is copied into the
\* record (the channel plus one) and the record is saved.
\* Result: [settings, mem, ok, cmds].
midi_handler_save_config(m, ctx, rec, mem, pages_ok) ==
    IF ~m.config_initialized THEN ConfigRefused(rec, mem)
    ELSE IF config_get_settings(m.initialized, rec) = <<>> THEN ConfigRefused(rec, mem)
    ELSE config_save([rec EXCEPT ![OffMidiChannel] = U8(ctx.config.midi_channel + 1),
                                 ![OffLowNote] = ctx.config.low_note,
                                 ![OffNoteRange] = ctx.config.note_range,
                                 ![OffSemitoneMode] = ctx.config.semitone_mode,
                                 ![OffIoExpanderAddress] = ctx.config.io_address,
                                 ![OffIoExpanderType] = ctx.config.io_type],
                     mem, pages_ok)

\* The router's context after midi_handler_init, from config_init's result c:
\* initialised from the loaded record, or with the router's defaults and the
\* mode parameter when config_init failed.
midi_handler_init_router(c, semitone_mode) ==
    IF c.ok
    THEN i2c_midi_init_with_config(
            [note_range |-> c.settings[OffNoteRange],
             low_note |-> c.settings[OffLowNote],
             high_note |-> U8(c.settings[OffLowNote] + c.settings[OffNoteRange] - 1),
             midi_channel |-> c.settings[OffMidiChannel],
             io_address |-> c.settings[OffIoExpanderAddress],
             io_type |-> c.settings[OffIoExpanderType],
             semitone_mode |-> c.settings[OffSemitoneMode]])
    ELSE i2c_midi_set_semitone_mode(
            [i2c_midi_init EXCEPT !.config =
                [note_range |-> @.note_range, low_note |-> @.low_note,
                 high_note |-> @.high_note,
                 midi_channel |-> @.midi_channel,
                 io_address |-> PCF857X_DEFAULT_ADDRESS,
                 io_type |-> @.io_type,
                 semitone_mode |-> @.semitone_mode]],
            semitone_mode)

\* The outcome of midi_handler_init, from config_init's result c.
\* Result: [settings, mem, ok, kind, cmds, mgr, ctx].
midi_handler_init_result(c, semitone_mode) ==
    [settings |-> c.settings, mem |-> c.mem, ok |-> c.ok, kind |-> c.kind,
     cmds |-> c.cmds,
     mgr |-> [initialized |-> c.initialized, config_initialized |-> c.ok],
     ctx |-> midi_handler_init_router(c, semitone_mode)]

\* midi_handler_init: config_init, then the router is initialised.
midi_handler_init(rec, mem, read_ok, pages_ok, semitone_mode) ==
    midi_handler_init_result(config_init(rec, mem, read_ok, pages_ok), semitone_mode)

\* config_update_display_settings: no range is checked.
\* Result: [settings, mem, ok, cmds].
config_update_display_settings(initialized, rec, mem, enabled, brightness, timeout, pages_ok) ==
    IF ~initialized THEN ConfigRefused(rec, mem)
    ELSE config_save([rec EXCEPT ![OffDisplayEnabled] = enabled,
                                 ![OffDisplayBrightness] = brightness,
                                 ![OffDisplayTimeout] = timeout],
                     mem, pages_ok)

\* midi_handler_reset_to_defaults: the defaults are loaded and saved, whether
\* or not the configuration manager was initialised.
midi_handler_reset_to_defaults(mem, pages_ok) ==
    config_save(config_load_defaults, mem, pages_ok)

----------------------------------------------------------------------------
(* src/midi_handler.c: SysEx messages *)

SYSEX_MANUFACTURER_ID == 125
SYSEX_DEVICE_ID == 0
SYSEX_START == 240
SYSEX_END == 247
SYSEX_CMD_SET_NOTE_RANGE == 1
SYSEX_CMD_SET_CHANNEL == 2
SYSEX_CMD_SET_SEMITONE_MODE == 3
SYSEX_CMD_CONFIG_MIDI_CHANNEL == 32
SYSEX_CMD_CONFIG_NOTE_RANGE == 33
SYSEX_CMD_CONFIG_LOW_NOTE == 34
SYSEX_CMD_CONFIG_SEMITONE_MODE == 35
SYSEX_CMD_CONFIG_IO_TYPE == 48
SYSEX_CMD_CONFIG_DISPLAY_ENABLE == 64
SYSEX_CMD_CONFIG_RESET_DEFAULTS == 240

\* internal_midi_handler collecting the bytes of one SysEx message, from the
\* start byte to the end byte: bytes beyond the buffer's size are dropped.
sysex_receive(bytes) ==
    SubSeq(bytes, 1, IF Len(bytes) < SYSEX_BUFFER_SIZE THEN Len(bytes)
                     ELSE SYSEX_BUFFER_SIZE)

\* sysex_buffer[i], with the index of the C array.
SysexByte(buf, i) == buf[i + 1]

\* Variant: the device ID is not looked at.
sysex_addressed_any_device(buf) ==
    /\ Len(buf) >= 5
    /\ SysexByte(buf, 1) = SYSEX_MANUFACTURER_ID

\* The checks of process_sysex_message before the command is looked at.
sysex_addressed(buf) ==
    /\ Len(buf) >= 5
    /\ SysexByte(buf, 1) = SYSEX_MANUFACTURER_ID
    /\ SysexByte(buf, 2) = SYSEX_DEVICE_ID

\* Results of process_sysex_message: [ctx, settings, mem, ok, cmds], ok telling
\* whether the command was carried out.
SysexNothing(ctx, rec, mem) ==
    [ctx |-> ctx, settings |-> rec, mem |-> mem, ok |-> FALSE, cmds |-> <<>>]

\* A runtime command: r is the setter's result.
SysexRuntime(r, rec, mem) ==
    [ctx |-> r.ctx, settings |-> rec, mem |-> mem, ok |-> r.ok, cmds |-> <<>>]

\* A persisted command: u is the result of the configuration update, after
\* the router's context when the update succeeded.
SysexStored(u, ctx, after) ==
    [ctx |-> IF u.ok THEN after ELSE ctx, settings |-> u.settings, mem |-> u.mem,
     ok |-> u.ok, cmds |-> u.cmds]

\* The router after SYSEX_CMD_CONFIG_RESET_DEFAULTS has erased the store: the
\* channel and the semitone mode are reloaded from the record.
sysex_reload_runtime(ctx, rec) ==
    i2c_midi_set_semitone_mode(
        midi_handler_set_channel(ctx, U8(rec[OffMidiChannel] - 1)).ctx,
        rec[OffSemitoneMode])

\* The switch of process_sysex_message over the command byte.
sysex_command(buf, m, ctx, rec, mem, pages_ok) ==
    LET index == Len(buf)
        command == SysexByte(buf, 3)
        a == SysexByte(buf, 4)
    IN  CASE command = SYSEX_CMD_SET_NOTE_RANGE ->
               IF index >= 6
               THEN SysexRuntime(midi_handler_set_note_range(ctx, a, SysexByte(buf, 5)),
                                 rec, mem)
               ELSE SysexNothing(ctx, rec, mem)
          [] command = SYSEX_CMD_SET_CHANNEL ->
               SysexRuntime(midi_handler_set_channel(ctx, a), rec, mem)
          [] command = SYSEX_CMD_SET_SEMITONE_MODE ->
               IF a <= SEMITONE_SKIP
               THEN SysexRuntime([ctx |-> i2c_midi_set_semitone_mode(ctx, a), ok |-> TRUE],
                                 rec, mem)
               ELSE SysexNothing(ctx, rec, mem)
          [] command = SYSEX_CMD_CONFIG_MIDI_CHANNEL ->
               IF m.config_initialized /\ a >= 1 /\ a <= 16
               THEN SysexStored(config_update_midi_setting(m.initialized, rec, mem, 0, a,
                                                           pages_ok),
                                ctx, midi_handler_set_channel(ctx, a - 1).ctx)
               ELSE SysexNothing(ctx, rec, mem)
          [] command = SYSEX_CMD_CONFIG_NOTE_RANGE ->
               IF m.config_initialized /\ a >= 1 /\ a <= 16
               THEN SysexStored(config_update_midi_setting(m.initialized, rec, mem, 1, a,
                                                           pages_ok),
                                ctx, ctx)
               ELSE SysexNothing(ctx, rec, mem)
          [] command = SYSEX_CMD_CONFIG_LOW_NOTE ->
               IF m.config_initialized /\ a <= 127
               THEN SysexStored(config_update_midi_setting(m.initialized, rec, mem, 2, a,
                                                           pages_ok),
                                ctx, ctx)
               ELSE SysexNothing(ctx, rec, mem)
          [] command = SYSEX_CMD_CONFIG_SEMITONE_MODE ->
               IF m.config_initialized /\ a <= 2
               THEN SysexStored(config_update_midi_setting(m.initialized, rec, mem, 3, a,
                                                           pages_ok),
                                ctx, i2c_midi_set_semitone_mode(ctx, a))
               ELSE SysexNothing(ctx, rec, mem)
          [] command = SYSEX_CMD_CONFIG_IO_TYPE ->
               IF index >= 6 /\ m.config_initialized /\ a <= 1
               THEN SysexStored(config_update_io_settings(m.initialized, rec, mem, a,
                                                          SysexByte(buf, 5), pages_ok),
                                ctx, ctx)
               ELSE SysexNothing(ctx, rec, mem)
          [] command = SYSEX_CMD_CONFIG_DISPLAY_ENABLE ->
               IF m.config_initialized /\ config_get_settings(m.initialized, rec) # <<>>
               THEN SysexStored(config_update_display_settings(
                                    m.initialized, rec, mem, a, rec[OffDisplayBrightness],
                                    rec[OffDisplayTimeout], pages_ok),
                                ctx, ctx)
               ELSE SysexNothing(ctx, rec, mem)
          [] command = SYSEX_CMD_CONFIG_RESET_DEFAULTS ->
               IF m.config_initialized
               THEN SysexStored(config_erase(m.initialized, rec, mem, pages_ok, pages_ok),
                                ctx, sysex_reload_runtime(ctx, config_load_defaults))
               ELSE SysexNothing(ctx, rec, mem)
          [] OTHER -> SysexNothing(ctx, rec, mem)

\* process_sysex_message on the collected buffer.
process_sysex_message(buf, m, ctx, rec, mem, pages_ok) ==
    IF sysex_addressed(buf)
    THEN sysex_command(buf, m, ctx, rec, mem, pages_ok)
    ELSE SysexNothing(ctx, rec, mem)

----------------------------------------------------------------------------
(* src/display_handler.c and src/midi_handler.c: the MIDI receive callback *)

\* display_handler_update_note.
display_handler_update_note(u) ==
    IF ~u.display_initialized THEN u
    ELSE [u EXCEPT !.screensaver_active = FALSE, !.is_home_screen = FALSE]

\* Variant: the byte is stored without looking at the index.
sysex_store_unchecked(r, byte) ==
    [r EXCEPT !.sysex_buffer = [i \in (DOMAIN @) \cup {r.sysex_index + 1} |->
                                   IF i = r.sysex_index + 1 THEN byte ELSE @[i]],
              !.sysex_index = U8(@ + 1)]

\* if (sysex_index < SYSEX_BUFFER_SIZE) sysex_buffer[sysex_index++] = status;
sysex_store(r, byte) ==
    IF r.sysex_index < SYSEX_BUFFER_SIZE
    THEN [r EXCEPT !.sysex_buffer[r.sysex_index + 1] = byte, !.sysex_index = U8(@ + 1)]
    ELSE r

\* The bytes process_sysex_message looks at: sysex_buffer[0 .. sysex_index - 1].
sysex_collected(r) == SubSeq(r.sysex_buffer, 1, r.sysex_index)

\* The end byte has been stored: reception ends and the message is processed.
sysex_finish(r, m, ctx, rec, mem, pages_ok) ==
    process_sysex_message(sysex_collected(r), m, ctx, rec, mem, pages_ok)
        @@ [rx |-> [r EXCEPT !.sysex_receiving = FALSE], kind |-> "Sysex"]

\* The note path of the callback: the message goes to the router.
midi_note_in(r, ctx, rec, mem, status, data1, data2, bus_ok) ==
    i2c_midi_process_message(ctx, status, data1, data2, bus_ok)
        @@ [rx |-> r, kind |-> "Note", settings |-> rec, mem |-> mem]

\* internal_midi_handler, the callback usb_midi_task calls for a packet.
\* Result: [rx, ctx, settings, mem, ok, cmds, kind].
internal_midi_handler(r, m, ctx, rec, mem, status, data1, data2, bus_ok, pages_ok) ==
    IF status = SYSEX_START
    THEN [rx |-> [r EXCEPT !.sysex_receiving = TRUE, !.sysex_index = 1,
                           !.sysex_buffer[1] = status],
          kind |-> "Start", ctx |-> ctx, settings |-> rec, mem |-> mem,
          ok |-> FALSE, cmds |-> <<>>]
    ELSE IF r.sysex_receiving
         THEN IF status = SYSEX_END
              THEN sysex_finish(sysex_store(r, status), m, ctx, rec, mem, pages_ok)
              ELSE [rx |-> sysex_store(r, status), kind |-> "Collect", ctx |-> ctx,
                    settings |-> rec, mem |-> mem, ok |-> FALSE, cmds |-> <<>>]
         ELSE midi_note_in(r, ctx, rec, mem, status, data1, data2, bus_ok)

\* What the callback does to the statics of the user interface: the time of
\* the last MIDI activity, and the note shown for a NoteOn outside a SysEx.
midi_handler_ui(u, r, status, data2) ==
    IF status # SYSEX_START /\ ~r.sysex_receiving
       /\ status - (status % 16) = MIDI_NOTE_ON /\ data2 > 0
    THEN display_handler_update_note([u EXCEPT !.midi_last_activity = u.now_ms])
    ELSE [u EXCEPT !.midi_last_activity = u.now_ms]

----------------------------------------------------------------------------
(* src/display_handler.c: the screensaver and its timer *)

SCREENSAVER_TIMEOUT_MS == 30000
TIMER_CHECK_INTERVAL_MS == 1000

\* sleep_ms: the caller does nothing else until the time has passed.
sleep_ms(u, ms) == [u EXCEPT !.now_ms = @ + ms]

display_handler_show_home(u) ==
    IF ~u.display_initialized THEN u
    ELSE [u EXCEPT !.screensaver_active = FALSE, !.is_home_screen = TRUE]

display_handler_screensaver_start(u) ==
    IF ~u.display_initialized THEN u
    ELSE [u EXCEPT !.screensaver_active = TRUE, !.is_home_screen = FALSE]

display_handler_screensaver_stop(u) ==
    IF ~u.display_initialized \/ ~u.screensaver_active THEN u
    ELSE display_handler_show_home([u EXCEPT !.screensaver_active = FALSE,
                                             !.screensaver_pending = FALSE])

\* display_handler_check_timeout, called from the main loop.
display_handler_check_timeout(u) ==
    IF u.screensaver_pending /\ ~u.screensaver_active
    THEN [u EXCEPT !.screensaver_pending = FALSE, !.screensaver_active = TRUE,
                   !.is_home_screen = FALSE]
    ELSE u

\* The later of the last MIDI activity and the last button activity.
last_activity(u) ==
    IF u.midi_last_activity > u.button_last_activity
    THEN u.midi_last_activity ELSE u.button_last_activity

\* Variant: the timer does not look at the menu.
timeout_check_callback_any_menu(u) ==
    IF u.screensaver_active THEN u
    ELSE IF last_activity(u) = 0
         THEN IF u.now_ms >= SCREENSAVER_TIMEOUT_MS
              THEN [u EXCEPT !.screensaver_pending = TRUE] ELSE u
         ELSE IF u.now_ms - last_activity(u) >= SCREENSAVER_TIMEOUT_MS
              THEN [u EXCEPT !.screensaver_pending = TRUE] ELSE u

\* timeout_check_callback, the alarm's callback (interrupt context).
timeout_check_callback(u) ==
    IF u.screensaver_active \/ u.menu_active THEN u
    ELSE timeout_check_callback_any_menu(u)

\* display_handler_init: the activity times are set and the alarm is started
\* when the display answers.
display_handler_init(u, oled_ok) ==
    IF oled_ok
    THEN [u EXCEPT !.display_initialized = TRUE, !.is_home_screen = TRUE,
                   !.button_last_activity = u.now_ms,
                   !.midi_last_activity = u.now_ms]
    ELSE [u EXCEPT !.display_initialized = FALSE]

----------------------------------------------------------------------------
(* src/menu_handler.c *)

SettingsTotal == 9
SettingsMaxLines == 6

menu_init(u) == [u EXCEPT !.menu_active = FALSE, !.current_option = MENU_OPTION_RESET_DEFAULTS]

menu_is_active(u) == u.menu_active

\* Variant: the menu is entered without stopping the screensaver.
menu_enter_keeping_screensaver(u) ==
    IF u.menu_active THEN u
    ELSE [u EXCEPT !.menu_active = TRUE, !.current_option = MENU_OPTION_RESET_DEFAULTS]

menu_enter(u) ==
    IF u.menu_active THEN u
    ELSE [(IF u.screensaver_active THEN display_handler_screensaver_stop(u) ELSE u)
             EXCEPT !.menu_active = TRUE, !.current_option = MENU_OPTION_RESET_DEFAULTS]

menu_exit(u) ==
    IF ~u.menu_active THEN u
    ELSE display_handler_show_home([u EXCEPT !.menu_active = FALSE])

\* Variant: the next option is taken whether or not the menu is active.
menu_next_unguarded(u) ==
    IF u.settings_view_active
    THEN IF u.settings_view_offset + SettingsMaxLines < SettingsTotal
         THEN [u EXCEPT !.settings_view_offset = @ + 1] ELSE u
    ELSE IF u.channel_selection_active
         THEN [u EXCEPT !.selected_channel = IF U8(@ + 1) > 16 THEN 1 ELSE U8(@ + 1)]
         ELSE [u EXCEPT !.current_option = (@ + 1) % MENU_OPTION_COUNT]

menu_next(u) ==
    IF ~u.menu_active THEN u
    ELSE IF u.settings_view_active
         THEN IF u.settings_view_offset + SettingsMaxLines < SettingsTotal
              THEN [u EXCEPT !.settings_view_offset = @ + 1] ELSE u
         ELSE IF u.channel_selection_active
              THEN [u EXCEPT !.selected_channel = IF U8(@ + 1) > 16 THEN 1 ELSE U8(@ + 1)]
              ELSE [u EXCEPT !.current_option = (@ + 1) % MENU_OPTION_COUNT]

\* The program's state as the button's callback sees it: the statics of the
\* user interface, the pin bank's router, the configuration record and the
\* store, with the bus commands and the button event of the current call.
World(u, ctx, rec, mem) ==
    [ui |-> u, ctx |-> ctx, settings |-> rec, mem |-> mem, cmds |-> <<>>, event |-> "NONE"]

\* The switch of menu_execute on current_option.  The accessors of the player
\* type (midi_handler_get_player_type, midi_handler_set_player_type) are not
\* part of the sources: the option leaves the pin bank's router as it is.
menu_execute_option(w, m, bus_ok, pages_ok) ==
    CASE w.ui.current_option = MENU_OPTION_RESET_DEFAULTS ->
            (midi_handler_reset_to_defaults(w.mem, pages_ok)
               @@ [ui |-> menu_exit(sleep_ms(w.ui, 3500))] @@ w)
      [] w.ui.current_option = MENU_OPTION_SAVE_CONFIG ->
            (midi_handler_save_config(m, w.ctx, w.settings, w.mem, pages_ok)
               @@ [ui |-> menu_exit(sleep_ms(w.ui, 3000))] @@ w)
      [] w.ui.current_option = MENU_OPTION_MIDI_CHANNEL ->
            [w EXCEPT !.ui.channel_selection_active = TRUE,
                      !.ui.selected_channel = midi_handler_get_channel(w.ctx)]
      [] w.ui.current_option = MENU_OPTION_NOTE_RANGE ->
            [w EXCEPT !.ui = sleep_ms(@, 1500)]
      [] w.ui.current_option = MENU_OPTION_PLAYER_TYPE ->
            [w EXCEPT !.ui = sleep_ms(@, 1500)]
      [] w.ui.current_option = MENU_OPTION_SEMITONE_MODE ->
            [w EXCEPT !.ctx = midi_handler_set_semitone_mode(@, (@.config.semitone_mode + 1) % 3),
                      !.ui = sleep_ms(@, 1500)]
      [] w.ui.current_option = MENU_OPTION_VIEW_SETTINGS ->
            [w EXCEPT !.ui.settings_view_active = TRUE, !.ui.settings_view_offset = 0]
      [] w.ui.current_option = MENU_OPTION_ALL_NOTES_OFF ->
            ([ui |-> menu_exit(sleep_ms(w.ui, 2000))]
               @@ midi_handler_all_notes_off(w.ctx, bus_ok) @@ w)
      [] w.ui.current_option = MENU_OPTION_EXIT ->
            [w EXCEPT !.ui = menu_exit(@)]
      [] OTHER -> w

\* menu_execute in the channel selection: midi_handler_set_channel is called
\* with the selected channel less one.
menu_confirm_channel(w) ==
    [w EXCEPT !.ctx = midi_handler_set_channel(@, U8(w.ui.selected_channel - 1)).ctx,
              !.ui = [sleep_ms(@, 1500) EXCEPT !.channel_selection_active = FALSE]]

\* Result: a World.
menu_execute(w, m, bus_ok, pages_ok) ==
    IF ~w.ui.menu_active THEN w
    ELSE IF w.ui.settings_view_active
         THEN [w EXCEPT !.ui.settings_view_active = FALSE, !.ui.settings_view_offset = 0]
         ELSE IF w.ui.channel_selection_active
              THEN menu_confirm_channel(w)
              ELSE menu_execute_option(w, m, bus_ok, pages_ok)

----------------------------------------------------------------------------
(* src/midi_synthesizer.c and src/button_handler.c: the button *)

BUTTON_DEBOUNCE_MS == 50
BUTTON_HOLD_TIME_MS == 3000
BUTTON_PIN == 4

\* handle_button_event, the callback main registers with the button handler.
handle_button_event(w, event, m, bus_ok, pages_ok) ==
    CASE event = "SHORT_PRESS" ->
            IF menu_is_active(w.ui) THEN [w EXCEPT !.ui = menu_next(@)] ELSE w
      [] event = "LONG_PRESS" ->
            IF menu_is_active(w.ui) THEN menu_execute(w, m, bus_ok, pages_ok)
            ELSE [w EXCEPT !.ui = menu_enter(@)]
      [] OTHER -> w

button_init(u, gpio_pin) ==
    IF gpio_pin > 28 THEN u
    ELSE [u EXCEPT !.button_pin = gpio_pin, !.button_state = "IDLE",
                   !.button_press_time = 0, !.button_hold_triggered = FALSE]

button_set_callback(u) == [u EXCEPT !.button_callback = TRUE]

\* Variant: the hold is looked at before the release.
button_event_hold_first(u, is_pressed) ==
    CASE u.button_state = "IDLE" ->
            IF is_pressed
            THEN [ui |-> [(IF u.screensaver_active
                           THEN display_handler_screensaver_stop(u) ELSE u)
                             EXCEPT !.button_press_time = u.now_ms,
                                    !.button_state = "PRESSED",
                                    !.button_hold_triggered = FALSE,
                                    !.button_last_activity = u.now_ms],
                  event |-> "NONE"]
            ELSE [ui |-> u, event |-> "NONE"]
      [] u.button_state = "PRESSED" ->
            IF u.now_ms - u.button_press_time >= BUTTON_HOLD_TIME_MS
            THEN [ui |-> [u EXCEPT !.button_hold_triggered = TRUE, !.button_state = "HELD"],
                  event |-> "LONG_PRESS"]
            ELSE IF ~is_pressed
                 THEN IF u.now_ms - u.button_press_time >= BUTTON_DEBOUNCE_MS
                      THEN [ui |-> [u EXCEPT !.button_last_activity = u.now_ms,
                                             !.button_state = "IDLE"],
                            event |-> "SHORT_PRESS"]
                      ELSE [ui |-> [u EXCEPT !.button_state = "IDLE"], event |-> "NONE"]
                 ELSE [ui |-> u, event |-> "NONE"]
      [] u.button_state = "HELD" ->
            IF ~is_pressed
            THEN [ui |-> [u EXCEPT !.button_state = "IDLE"], event |-> "RELEASED"]
            ELSE [ui |-> u, event |-> "NONE"]
      [] OTHER -> [ui |-> [u EXCEPT !.button_state = "IDLE"], event |-> "NONE"]

\* The switch of button_update on button_state.  Result: [ui, event].
button_event(u, is_pressed) ==
    CASE u.button_state = "IDLE" ->
            IF is_pressed
            THEN [ui |-> [(IF u.screensaver_active
                           THEN display_handler_screensaver_stop(u) ELSE u)
                             EXCEPT !.button_press_time = u.now_ms,
                                    !.button_state = "PRESSED",
                                    !.button_hold_triggered = FALSE,
                                    !.button_last_activity = u.now_ms],
                  event |-> "NONE"]
            ELSE [ui |-> u, event |-> "NONE"]
      [] u.button_state = "PRESSED" ->
            IF ~is_pressed
            THEN IF u.now_ms - u.button_press_time >= BUTTON_DEBOUNCE_MS
                 THEN [ui |-> [u EXCEPT !.button_last_activity = u.now_ms,
                                        !.button_state = "IDLE"],
                       event |-> "SHORT_PRESS"]
                 ELSE [ui |-> [u EXCEPT !.button_state = "IDLE"], event |-> "NONE"]
            ELSE IF u.now_ms - u.button_press_time >= BUTTON_HOLD_TIME_MS
                    /\ ~u.button_hold_triggered
                 THEN [ui |-> [u EXCEPT !.button_hold_triggered = TRUE,
                                        !.button_state = "HELD"],
                       event |-> "LONG_PRESS"]
                 ELSE [ui |-> u, event |-> "NONE"]
      [] u.button_state = "HELD" ->
            IF ~is_pressed
            THEN [ui |-> [u EXCEPT !.button_state = "IDLE"], event |-> "RELEASED"]
            ELSE [ui |-> u, event |-> "NONE"]
      [] OTHER -> [ui |-> [u EXCEPT !.button_state = "IDLE"], event |-> "NONE"]

\* The callback is called when there is an event and a callback.
button_callback(w, event, m, bus_ok, pages_ok) ==
    IF event # "NONE" /\ w.ui.button_callback
    THEN [handle_button_event(w, event, m, bus_ok, pages_ok) EXCEPT !.event = event]
    ELSE [w EXCEPT !.event = event]

\* button_update with the level read from the pin.  Result: a World whose
\* event is the event returned.
button_update(w, is_pressed, m, bus_ok, pages_ok) ==
    IF w.ui.button_pin = 255 THEN w
    ELSE button_callback([w EXCEPT !.ui = button_event(w.ui, is_pressed).ui],
                         button_event(w.ui, is_pressed).event, m, bus_ok, pages_ok)

----------------------------------------------------------------------------
(* Parts of the state a specification does not construct *)

I2cBlank ==
    [config |-> [note_range |-> 0, low_note |-> 0, high_note |-> 0, midi_channel |-> 0,
                 io_type |-> IO_EXPANDER_PCF8574, semitone_mode |-> SEMITONE_PLAY],
     pin_state |-> 0,
     drv_pin_state |-> 0]

MgrBlank == [initialized |-> FALSE, config_initialized |-> FALSE]

----------------------------------------------------------------------------
(* SpecRoute: the routing decision over every policy.  A context is         *)
(* initialised with a policy (low_note, note_range, semitone_mode) drawn     *)
(* from the whole configuration range, its semitone mode may be changed, and *)
(* one note message is routed.                                               *)

RouteChannel == 9
RouteVelocity == 100

RouteStatus == MIDI_NOTE_ON + RouteChannel

InitRoute ==
    /\ player \in {"i2c_midi", "pca9685"}
    /\ \E low \in Notes, nr \in NoteRanges, mode \in Modes :
          /\ i2c_midi_ctx =
                IF player = "i2c_midi"
                THEN i2c_midi_init_with_config(
                        [note_range |-> nr, low_note |-> low,
                         high_note |-> U8(low + nr - 1),
                         midi_channel |-> RouteChannel + 1,
                         io_type |-> IO_EXPANDER_PCF8574,
                         semitone_mode |-> mode])
                ELSE I2cBlank
          /\ pca_ctx =
                IF player = "pca9685"
                THEN pca9685_midi_init_with_config(PcaBlank,
                        [PcaDefaultConfig EXCEPT !.note_range = nr, !.low_note = low,
                                                 !.semitone_mode = mode,
                                                 !.midi_channel = RouteChannel],
                        TRUE)
                ELSE PcaBlank
    /\ settings = <<>>
    /\ eeprom = <<>>
    /\ mgr = MgrBlank
    /\ time_us = 0
    /\ pc = "init"
    /\ obs = NoObs
    /\ rx = RxBlank
    /\ ui = UiBlank

\* midi_handler_set_semitone_mode / pca9685_midi_set_semitone_mode, changing the mode
SetSemitoneMode ==
    /\ pc = "init"
    /\ \E mode \in Modes :
          /\ mode # (IF player = "i2c_midi" THEN i2c_midi_ctx ELSE pca_ctx).config.semitone_mode
          /\ i2c_midi_ctx' = IF player = "i2c_midi"
                             THEN midi_handler_set_semitone_mode(i2c_midi_ctx, mode)
                             ELSE i2c_midi_ctx
          /\ pca_ctx' = IF player = "pca9685"
                        THEN pca9685_midi_set_semitone_mode(pca_ctx, mode)
                        ELSE pca_ctx
          /\ obs' = [NoObs EXCEPT !.op = "set_semitone_mode", !.note = mode, !.result = TRUE]
    /\ pc' = "ready"
    /\ UNCHANGED <<player, settings, eeprom, mgr, time_us, rx, ui>>

RouteMessage ==
    /\ pc \in {"init", "ready"}
    /\ \E note \in Notes :
          LET r == IF player = "i2c_midi"
                   THEN i2c_midi_process_message(i2c_midi_ctx, RouteStatus, note,
                                                 RouteVelocity, TRUE)
                   ELSE pca9685_midi_process_message(pca_ctx, RouteStatus, note,
                                                     RouteVelocity, time_us, TRUE)
          IN  /\ i2c_midi_ctx' = IF player = "i2c_midi" THEN r.ctx ELSE i2c_midi_ctx
              /\ pca_ctx' = IF player = "pca9685" THEN r.ctx ELSE pca_ctx
              /\ obs' = [NoObs EXCEPT !.op = "process", !.status = RouteStatus,
                                      !.note = note, !.velocity = RouteVelocity,
                                      !.kind = r.route.kind, !.index = r.route.index,
                                      !.result = r.ok, !.cmds = r.cmds]
    /\ pc' = "done"
    /\ UNCHANGED <<player, settings, eeprom, mgr, time_us, rx, ui>>

NextRoute == SetSemitoneMode \/ RouteMessage

SpecRoute == InitRoute /\ [][NextRoute]_vars

\* The routing policy of the backend in use.
Policy == IF player = "i2c_midi" THEN i2c_midi_ctx.config ELSE pca_ctx.config

\* The routing decision of the backend in use for a note message.
RouteOf(status, note, velocity) ==
    IF player = "i2c_midi"
    THEN i2c_route(i2c_midi_ctx.config, status, note, velocity)
    ELSE pca_route(pca_ctx, status, note, velocity)

IndexOf(note) == RouteOf(RouteStatus, note, RouteVelocity).index

AcceptedNote(note) == RouteOf(RouteStatus, note, RouteVelocity).kind # "Rejected"

Routed == pc = "done" /\ obs.op = "process"

Accepted == obs.kind # "Rejected"

InWindow(note) == Policy.low_note <= note /\ note <= Policy.high_note

Window == Policy.low_note..Policy.high_note

SemitoneClasses == {1, 3, 6, 8, 10}

\* The non-semitone notes of [a, b], stated from the definition of a semitone.
WholeTones(a, b) == {n \in a..b : (n % 12) \notin SemitoneClasses}

\* WholeUpTo[n]: how many non-semitone notes lie in [0, n].
WholeUpTo == [n \in -1..255 |-> Cardinality(WholeTones(0, n))]

\* How many non-semitone notes lie in [a, b] (a <= b + 1).
CountWhole(a, b) == WholeUpTo[b] - WholeUpTo[a - 1]

PolicySet == pc \in {"init", "ready"}

(* C1: in Play mode high_note = low_note + note_count - 1; a channel-matched note
   is accepted exactly when it lies in [low_note, high_note], with
   index = note - low_note, and the index mapping is a bijection from
   [low_note, high_note] onto [0, note_count - 1]. *)
C1_PlayWindowBijection ==
    Policy.semitone_mode = SEMITONE_PLAY =>
        /\ Policy.high_note = Policy.low_note + Policy.note_range - 1
        /\ Routed => /\ Accepted <=> InWindow(obs.note)
                     /\ Accepted => obs.kind = "NoteOn"
                                    /\ obs.index = obs.note - Policy.low_note
        /\ PolicySet =>
              /\ \A n \in Window : AcceptedNote(n) /\ IndexOf(n) = n - Policy.low_note
              /\ {IndexOf(n) : n \in Window} = 0..(Policy.note_range - 1)
              /\ \A n1, n2 \in Window : IndexOf(n1) = IndexOf(n2) => n1 = n2

\* Scenario A: low 60, count 8, Play: note 67 was routed to index 7 (and 68 is rejected).
C1_Witness ==
    /\ Routed /\ Policy.semitone_mode = SEMITONE_PLAY
    /\ Policy.low_note = 60 /\ Policy.note_range = 8
    /\ obs.note = 67 /\ obs.kind = "NoteOn" /\ obs.index = 7
    /\ ~AcceptedNote(68)

\* h is the smallest note >= low with exactly nr non-semitone notes in [low, h].
SmallestWithCount(h, low, nr) ==
    /\ h >= low
    /\ CountWhole(low, h) = nr
    /\ \A m \in low..(h - 1) : CountWhole(low, m) # nr

(* C2 as claimed: in Skip or Ignore mode, for every low_note in 0..127 and
   note_count in 1..16, high_note is the smallest note >= low_note such that
   exactly note_count non-semitone notes lie in [low_note, high_note]. *)
C2_HighNoteSmallest ==
    PolicySet /\ Policy.semitone_mode \in {SEMITONE_IGNORE, SEMITONE_SKIP} =>
        SmallestWithCount(Policy.high_note, Policy.low_note, Policy.note_range)

(* C2 as amended: in Skip or Ignore mode, whenever at least note_count
   non-semitone notes lie in [low_note, 127], high_note is the smallest note
   >= low_note such that exactly note_count non-semitone notes lie in
   [low_note, high_note]. *)
C2_HighNoteSmallestBelowClamp ==
    (/\ PolicySet
     /\ Policy.semitone_mode \in {SEMITONE_IGNORE, SEMITONE_SKIP}
     /\ CountWhole(Policy.low_note, MaxNote) >= Policy.note_range) =>
        SmallestWithCount(Policy.high_note, Policy.low_note, Policy.note_range)

\* Scenario B: low 60, count 4, set to Skip: high_note = 65.
C2_Witness ==
    /\ obs.op = "set_semitone_mode" /\ Policy.semitone_mode = SEMITONE_SKIP
    /\ Policy.low_note = 60 /\ Policy.note_range = 4 /\ Policy.high_note = 65

\* The accepted non-semitone notes of the window, and the indices they get.
WholeWindow == WholeTones(Policy.low_note, Policy.high_note)

C3_PerNote ==
    /\ (Routed /\ InWindow(obs.note) /\ obs.note \in WholeWindow) =>
          /\ Accepted
          /\ obs.index = CountWhole(Policy.low_note, obs.note - 1)
    /\ (Routed /\ Policy.semitone_mode = SEMITONE_IGNORE
               /\ (obs.note % 12) \in SemitoneClasses) => ~Accepted
    /\ PolicySet =>
          /\ \A n \in WholeWindow :
                AcceptedNote(n) /\ IndexOf(n) = CountWhole(Policy.low_note, n - 1)
          /\ \A n1, n2 \in WholeWindow : n1 < n2 => IndexOf(n1) < IndexOf(n2)

(* C3 as claimed: in Ignore or Skip mode every non-semitone note in
   [low_note, high_note] is accepted and routed to the number of non-semitone
   notes in [low_note, note); these notes map in increasing order one-to-one
   onto [0, note_count - 1]; in Ignore mode every semitone note is rejected. *)
C3_WholeToneIndexOnto ==
    Policy.semitone_mode \in {SEMITONE_IGNORE, SEMITONE_SKIP} =>
        /\ C3_PerNote
        /\ PolicySet =>
              {IndexOf(n) : n \in WholeWindow} = 0..(Policy.note_range - 1)

(* C3 as amended: as claimed, except that the accepted non-semitone notes map
   onto [0, k - 1], where k is the number of non-semitone notes in
   [low_note, high_note]; k = note_count whenever at least note_count
   non-semitone notes lie in [low_note, 127]. *)
C3_WholeToneIndexOntoWindow ==
    Policy.semitone_mode \in {SEMITONE_IGNORE, SEMITONE_SKIP} =>
        /\ C3_PerNote
        /\ PolicySet =>
              /\ {IndexOf(n) : n \in WholeWindow} = 0..(Cardinality(WholeWindow) - 1)
              /\ CountWhole(Policy.low_note, MaxNote) >= Policy.note_range =>
                    Cardinality(WholeWindow) = Policy.note_range

\* low 60, count 4, Ignore: note 65 (F) was routed to index 3, the last one.
C3_Witness ==
    /\ Routed /\ Policy.semitone_mode = SEMITONE_IGNORE
    /\ Policy.low_note = 60 /\ Policy.note_range = 4
    /\ obs.note = 65 /\ obs.kind = "NoteOn" /\ obs.index = 3

\* The next non-semitone note above s, bounded at 127.
NextWholeTone(s) ==
    IF WholeTones(s + 1, MaxNote) = {} THEN MaxNote
    ELSE CHOOSE m \in WholeTones(s + 1, MaxNote) : \A k \in WholeTones(s + 1, MaxNote) : m <= k

(* C4: in Skip mode a semitone note is first remapped to the next non-semitone
   note above it (bounded at 127) and only then checked against the window: it
   is accepted exactly when the remapped note lies in [low_note, high_note],
   and it is then routed to the index of the remapped note. *)
C4_SkipRemapThenWindow ==
    (/\ Routed /\ Policy.semitone_mode = SEMITONE_SKIP
     /\ (obs.note % 12) \in SemitoneClasses) =>
        /\ Accepted <=> InWindow(NextWholeTone(obs.note))
        /\ Accepted => obs.index = IndexOf(NextWholeTone(obs.note))

----------------------------------------------------------------------------
(* SpecDispatch: the handler in operation.  The backend is initialised, its  *)
(* routing policy is changed through the setters, and then note messages are *)
(* processed, each bus write succeeding or failing; the servo bank is also   *)
(* polled (update) while its clock advances.                                 *)

DispatchLowNote == 60
DispatchNoteRange == 8
TickUnits == 6250
MaxTicks == 2

IoTypes == {IO_EXPANDER_PCF8574, IO_EXPANDER_CH423, 2}
ChannelArgs == {0, 9, 15, 16, ALL_CHANNELS}
RangeArgs == {<<60, 83>>, <<61, 70>>, <<70, 60>>, <<60, 128>>}
ModeArgs == 0..3
DispatchStatuses == {137, 153, 154, 185}
DispatchNotes == {60, 70, 80}
DispatchVelocities == {0, 100}

InitDispatch ==
    /\ player \in {"i2c_midi", "pca9685"}
    /\ \E mode \in Modes, io \in IoTypes :
          /\ i2c_midi_ctx =
                IF player = "i2c_midi"
                THEN i2c_midi_init_with_config(
                        [note_range |-> DispatchNoteRange, low_note |-> DispatchLowNote,
                         high_note |-> U8(DispatchLowNote + DispatchNoteRange - 1),
                         midi_channel |-> I2C_MIDI_DEFAULT_CHANNEL,
                         io_type |-> io,
                         semitone_mode |-> mode])
                ELSE I2cBlank
          /\ pca_ctx =
                IF player = "pca9685" /\ io = IO_EXPANDER_PCF8574
                THEN pca9685_midi_init_with_config(PcaBlank,
                        [PcaDefaultConfig EXCEPT !.semitone_mode = mode,
                                                 !.midi_channel = RouteChannel],
                        TRUE)
                ELSE PcaBlank
          /\ (player = "pca9685") => (io = IO_EXPANDER_PCF8574)
    /\ settings = <<>>
    /\ eeprom = <<>>
    /\ mgr = MgrBlank
    /\ time_us = 0
    /\ pc = "config"
    /\ obs = NoObs
    /\ rx = RxBlank
    /\ ui = UiBlank

SetterObs(op, a, b, ok) ==
    [NoObs EXCEPT !.op = op, !.note = a, !.velocity = b, !.result = ok]

SetChannel ==
    /\ pc = "config" /\ player = "i2c_midi"
    /\ \E channel \in ChannelArgs :
          LET r == midi_handler_set_channel(i2c_midi_ctx, channel)
          IN  /\ i2c_midi_ctx' = r.ctx
              /\ obs' = SetterObs("set_channel", channel, 0, r.ok)
    /\ UNCHANGED <<player, pca_ctx, settings, eeprom, mgr, time_us, pc, rx, ui>>

SetNoteRange ==
    /\ pc = "config" /\ player = "i2c_midi"
    /\ \E range \in RangeArgs :
          LET r == midi_handler_set_note_range(i2c_midi_ctx, range[1], range[2])
          IN  /\ i2c_midi_ctx' = r.ctx
              /\ obs' = SetterObs("set_note_range", range[1], range[2], r.ok)
    /\ UNCHANGED <<player, pca_ctx, settings, eeprom, mgr, time_us, pc, rx, ui>>

SetMode ==
    /\ pc = "config"
    /\ \E mode \in ModeArgs :
          /\ (player = "pca9685") => (mode \in Modes)
          /\ i2c_midi_ctx' = IF player = "i2c_midi"
                             THEN midi_handler_set_semitone_mode(i2c_midi_ctx, mode)
                             ELSE i2c_midi_ctx
          /\ pca_ctx' = IF player = "pca9685"
                        THEN pca9685_midi_set_semitone_mode(pca_ctx, mode)
                        ELSE pca_ctx
          /\ obs' = SetterObs("set_semitone_mode", mode, 0, TRUE)
    /\ UNCHANGED <<player, settings, eeprom, mgr, time_us, pc, rx, ui>>

SetStrikeMode ==
    /\ pc = "config" /\ player = "pca9685"
    /\ \E mode \in {PCA9685_STRIKE_MODE_SIMPLE, PCA9685_STRIKE_MODE_POSITION} :
          /\ pca_ctx' = pca9685_midi_set_strike_mode(pca_ctx, mode)
          /\ obs' = SetterObs("set_strike_mode", mode, 0, TRUE)
    /\ UNCHANGED <<player, i2c_midi_ctx, settings, eeprom, mgr, time_us, pc, rx, ui>>

ProcessMessage ==
    /\ pc \in {"config", "run"}
    /\ \E status \in DispatchStatuses, note \in DispatchNotes,
          velocity \in DispatchVelocities, bus_ok \in BOOLEAN :
          LET r == IF player = "i2c_midi"
                   THEN midi_handler_process_message(i2c_midi_ctx, status, note,
                                                     velocity, bus_ok)
                   ELSE pca9685_midi_process_message(pca_ctx, status, note,
                                                     velocity, time_us, bus_ok)
          IN  /\ i2c_midi_ctx' = IF player = "i2c_midi" THEN r.ctx ELSE i2c_midi_ctx
              /\ pca_ctx' = IF player = "pca9685" THEN r.ctx ELSE pca_ctx
              /\ obs' = [op |-> "process", status |-> status, note |-> note,
                         velocity |-> velocity, kind |-> r.route.kind,
                         index |-> r.route.index, result |-> r.ok,
                         bus_ok |-> bus_ok, cmds |-> r.cmds]
    /\ pc' = "run"
    /\ UNCHANGED <<player, settings, eeprom, mgr, time_us, rx, ui>>

AllNotesOff ==
    /\ pc = "run"
    /\ \E bus_ok \in BOOLEAN :
          LET r == IF player = "i2c_midi"
                   THEN midi_handler_all_notes_off(i2c_midi_ctx, bus_ok)
                   ELSE pca9685_midi_all_notes_off(pca_ctx, bus_ok)
          IN  /\ i2c_midi_ctx' = IF player = "i2c_midi" THEN r.ctx ELSE i2c_midi_ctx
              /\ pca_ctx' = IF player = "pca9685" THEN r.ctx ELSE pca_ctx
              /\ obs' = [NoObs EXCEPT !.op = "all_notes_off", !.result = r.ok,
                                      !.bus_ok = bus_ok, !.cmds = r.cmds]
    /\ UNCHANGED <<player, settings, eeprom, mgr, time_us, pc, rx, ui>>

Update ==
    /\ pc = "run" /\ player = "pca9685"
    /\ \E bus_ok \in BOOLEAN :
          LET r == pca9685_midi_update(pca_ctx, time_us, bus_ok)
          IN  /\ pca_ctx' = r.ctx
              /\ obs' = [NoObs EXCEPT !.op = "update", !.result = TRUE,
                                      !.bus_ok = bus_ok, !.cmds = r.cmds]
    /\ UNCHANGED <<player, i2c_midi_ctx, settings, eeprom, mgr, time_us, pc, rx, ui>>

Tick ==
    /\ pc = "run" /\ player = "pca9685"
    /\ time_us < MaxTicks * TickUnits
    /\ time_us' = U32(time_us + TickUnits)
    /\ UNCHANGED <<player, i2c_midi_ctx, pca_ctx, settings, eeprom, mgr, pc, obs, rx, ui>>

NextDispatch ==
    \/ SetChannel
    \/ SetNoteRange
    \/ SetMode
    \/ SetStrikeMode
    \/ ProcessMessage
    \/ AllNotesOff
    \/ Update
    \/ Tick

SpecDispatch == InitDispatch /\ [][NextDispatch]_vars

----------------------------------------------------------------------------
(* Channel filter, message classification, capacity and write failures *)

Channels == 0..15

\* The status bytes of Note-On and Note-Off on every channel.
NoteStatuses == {MIDI_NOTE_OFF + ch : ch \in Channels} \cup {MIDI_NOTE_ON + ch : ch \in Channels}

\* The note passes every rule of the pin bank's router other than the channel
\* filter: it is accepted once the filter is set to the message's channel.
PassesNoteRules(status, note, velocity) ==
    i2c_route([i2c_midi_ctx.config EXCEPT !.midi_channel = (status % 16) + 1],
              status, note, velocity).kind # "Rejected"

AcceptedBy(status, note, velocity) == RouteOf(status, note, velocity).kind # "Rejected"

ChannelJustSet == player = "i2c_midi" /\ obs.op = "set_channel" /\ obs.result

(* C5: after midi_handler_set_channel(c) with c in 0..15 returned true, a
   Note-On/Note-Off whose note is inside the window is accepted if and only
   if the low nibble of its status byte equals c. *)
C5_ChannelFilterZeroBased ==
    (ChannelJustSet /\ obs.note \in Channels) =>
        \A status \in NoteStatuses, note \in DispatchNotes, velocity \in DispatchVelocities :
            (InWindow(note) /\ PassesNoteRules(status, note, velocity)) =>
                (AcceptedBy(status, note, velocity) <=> (status % 16) = obs.note)

(* C6: after midi_handler_set_channel(0xFF) a Note-On/Note-Off whose note is
   inside the window is accepted on every one of the 16 channels. *)
C6_AllChannelsSentinel ==
    (ChannelJustSet /\ obs.note = ALL_CHANNELS) =>
        \A status \in NoteStatuses, note \in DispatchNotes, velocity \in DispatchVelocities :
            (InWindow(note) /\ PassesNoteRules(status, note, velocity)) =>
                AcceptedBy(status, note, velocity)

\* What processing a message in the current state would do: the routing
\* decision, the backend commands, the return value and the resulting context.
Process(status, note, velocity, bus_ok) ==
    IF player = "i2c_midi"
    THEN midi_handler_process_message(i2c_midi_ctx, status, note, velocity, bus_ok)
    ELSE pca9685_midi_process_message(pca_ctx, status, note, velocity, time_us, bus_ok)

MessageTypes == {128, 144, 160, 176, 192, 208, 224}

(* C7: for every policy and every accepted note, a Note-On with velocity 0
   produces the same dispatcher call (same index, off) and the same resulting
   channel state as a Note-Off for that note; a Note-On with velocity > 0 is
   the only message classified as NoteOn. *)
C7_NoteOnVelocityZeroIsNoteOff ==
    /\ \A ch \in Channels, note \in DispatchNotes, bus_ok \in BOOLEAN :
          LET on0 == Process(MIDI_NOTE_ON + ch, note, 0, bus_ok)
          IN  /\ on0.route.kind # "NoteOn"
              /\ \A velocity \in DispatchVelocities :
                    on0 = Process(MIDI_NOTE_OFF + ch, note, velocity, bus_ok)
    /\ \A type \in MessageTypes, ch \in Channels, note \in DispatchNotes,
          velocity \in DispatchVelocities :
          RouteOf(type + ch, note, velocity).kind = "NoteOn"
              => (type = MIDI_NOTE_ON /\ velocity > 0)
    /\ (obs.op = "process" /\ obs.kind = "NoteOn")
          => (obs.status - (obs.status % 16) = MIDI_NOTE_ON /\ obs.velocity > 0)
    /\ (obs.op = "process" /\ obs.kind # "Rejected"
           /\ obs.status - (obs.status % 16) = MIDI_NOTE_ON /\ obs.velocity = 0)
          => obs.kind = "NoteOff"

\* A Note-On with velocity 0 on channel 10 was accepted and dispatched as the
\* NoteOff of its index, and the write went through.
C7_Witness ==
    /\ obs.op = "process" /\ obs.status = MIDI_NOTE_ON + RouteChannel
    /\ obs.velocity = 0 /\ obs.note = DispatchLowNote
    /\ obs.kind = "NoteOff" /\ obs.index = 0 /\ obs.result
    /\ Len(obs.cmds) = 1

\* The number of outputs of the backend in use.
Capacity ==
    IF player = "pca9685" THEN NumServos
    ELSE IF i2c_midi_ctx.config.io_type = IO_EXPANDER_PCF8574 THEN PCF8575_NUM_PINS
    ELSE IF i2c_midi_ctx.config.io_type = IO_EXPANDER_CH423 THEN CH423_NUM_PINS
    ELSE 0

(* C8: for every routing policy reachable through init and setter operations
   and every (status, note, velocity) input, an index handed to the backend is
   strictly below the backend capacity; a computed index >= capacity is
   rejected, and no pin beyond the expander's pins and no servo_states entry
   outside 0..15 is ever written. *)
C8_IndexBelowCapacity ==
    /\ (obs.op = "process" /\ obs.kind # "Rejected") => obs.index < Capacity
    /\ \A i \in 1..Len(obs.cmds) :
          obs.cmds[i].target = ALL_CHANNELS \/ obs.cmds[i].target < Capacity
    /\ (pc = "config") =>
          \A status \in NoteStatuses, note \in Notes, velocity \in DispatchVelocities :
              LET r == RouteOf(status, note, velocity)
              IN  r.kind # "Rejected" => r.index < Capacity
    /\ i2c_midi_ctx.pin_state \in 0..255
    /\ i2c_midi_ctx.drv_pin_state \in 0..65535
    /\ DOMAIN pca_ctx.servo_states = Servos

\* Play mode with the window 60..83 on a 16-pin expander: note 80 on the
\* matching channel computes index 20 and was rejected.
C8_Witness ==
    /\ player = "i2c_midi" /\ obs.op = "process"
    /\ Policy.semitone_mode = SEMITONE_PLAY
    /\ Policy.low_note = 60 /\ Policy.high_note = 83
    /\ Capacity = 16
    /\ (obs.status % 16) + 1 = Policy.midi_channel
    /\ obs.status - (obs.status % 16) = MIDI_NOTE_ON /\ obs.velocity > 0
    /\ obs.note = 80 /\ obs.kind = "Rejected"

(* C9: when the backend write fails while dispatching an accepted NoteOn or
   NoteOff, the dispatch returns false and the in-memory channel state
   (pin_state; current_angle, striking, return_time) is left unchanged. *)
C9_FailedWriteLeavesState ==
    [][(/\ obs'.op = "process" /\ obs'.kind # "Rejected"
        /\ ~obs'.bus_ok /\ Len(obs'.cmds) > 0)
       => (/\ ~obs'.result
           /\ i2c_midi_ctx'.pin_state = i2c_midi_ctx.pin_state
           /\ pca_ctx'.servo_states = pca_ctx.servo_states)]_vars

----------------------------------------------------------------------------
(* SpecConfig: the configuration store.  The EEPROM holds some content when  *)
(* the device boots (a record saved earlier, a damaged one, a blank or a     *)
(* zeroed chip); config_init reads and validates it, and falls back to the   *)
(* defaults, which it writes back page by page; the read and each page write *)
(* succeed or fail.  The device may boot again on what the last boot left.   *)

CorruptMask == 1

ZeroRecord == [i \in 1..SettingsSize |-> 0]

BlankRecord == [i \in 1..SettingsSize |-> 255]

MakeRecord(magic, version, channel, note_range, low_note, mode, io_type) ==
    WithCrc(Bytes32(magic)
            \o <<version, channel, note_range, low_note, mode, DEFAULT_PLAYER_TYPE,
                 io_type, DEFAULT_IO_EXPANDER_ADDRESS, DEFAULT_DISPLAY_ENABLED,
                 DEFAULT_DISPLAY_BRIGHTNESS, DEFAULT_DISPLAY_TIMEOUT>>
            \o [i \in 1..ReservedSize |-> 0]
            \o <<0, 0>>)

BaseRecord == MakeRecord(CONFIG_MAGIC_NUMBER, CONFIG_VERSION, 5, 12, 48, 1, 1)

\* Records a save has left: checksummed, every field in range.
SavedRecords ==
    {BaseRecord,
     MakeRecord(CONFIG_MAGIC_NUMBER, CONFIG_VERSION, 1, 1, 0, 0, 0),
     MakeRecord(CONFIG_MAGIC_NUMBER, CONFIG_VERSION, 16, 16, 127, 2, 1),
     MakeRecord(CONFIG_MAGIC_NUMBER, CONFIG_VERSION + 1, 5, 12, 48, 1, 0)}

\* Checksummed records with one field out of range, or another magic number.
OutOfRangeRecords ==
    {MakeRecord(CONFIG_MAGIC_NUMBER, CONFIG_VERSION, 0, 12, 48, 1, 0),
     MakeRecord(CONFIG_MAGIC_NUMBER, CONFIG_VERSION, 17, 12, 48, 1, 0),
     MakeRecord(CONFIG_MAGIC_NUMBER, CONFIG_VERSION, 5, 0, 48, 1, 0),
     MakeRecord(CONFIG_MAGIC_NUMBER, CONFIG_VERSION, 5, 17, 48, 1, 0),
     MakeRecord(CONFIG_MAGIC_NUMBER, CONFIG_VERSION, 5, 12, 128, 1, 0),
     MakeRecord(CONFIG_MAGIC_NUMBER, CONFIG_VERSION, 5, 12, 48, 3, 0),
     MakeRecord(CONFIG_MAGIC_NUMBER + 1, CONFIG_VERSION, 5, 12, 48, 1, 0)}

\* A saved record with one byte damaged.
CorruptedRecords ==
    {[BaseRecord EXCEPT ![p] = Xor(@, CorruptMask)] : p \in 1..SettingsSize}

StorageContents ==
    SavedRecords \cup OutOfRangeRecords \cup CorruptedRecords \cup {ZeroRecord, BlankRecord}

InitConfig ==
    /\ player = "i2c_midi"
    /\ i2c_midi_ctx = I2cBlank
    /\ pca_ctx = PcaBlank
    /\ settings = ZeroRecord
    /\ eeprom \in StorageContents
    /\ mgr = MgrBlank
    /\ time_us = 0
    /\ pc = "boot"
    /\ obs = NoObs
    /\ rx = RxBlank
    /\ ui = UiBlank

\* config_init, as midi_handler_init calls it at boot.
ConfigInit ==
    /\ pc \in {"boot", "up"}
    /\ \E read_ok \in BOOLEAN, pages_ok \in 0..NumChunks(SettingsSize) :
          LET r == config_init(ZeroRecord, eeprom, read_ok, pages_ok)
          IN  /\ settings' = r.settings
              /\ eeprom' = r.mem
              /\ mgr' = [initialized |-> r.initialized,
                         config_initialized |-> r.initialized]
              /\ obs' = [NoObs EXCEPT !.op = "config_init", !.kind = r.kind,
                                      !.result = r.ok, !.bus_ok = read_ok,
                                      !.cmds = r.cmds]
    /\ pc' = "up"
    /\ UNCHANGED <<player, i2c_midi_ctx, pca_ctx, time_us, rx, ui>>

NextConfig == ConfigInit

SpecConfig == InitConfig /\ [][NextConfig]_vars

\* The validity of a record, field by field: the magic number "MSYN" in
\* memory order, the checksum over the first 31 bytes, and the ranges.
ValidRecord(rec) ==
    /\ <<rec[1], rec[2], rec[3], rec[4]>> = <<78, 89, 83, 77>>
    /\ rec[32] + 256 * rec[33] = calculate_crc16(rec, 31)
    /\ rec[6] \in 1..16
    /\ rec[7] \in 1..16
    /\ rec[8] <= 127
    /\ rec[9] <= 2

\* The compiled-in defaults with their checksum, byte by byte.
DefaultsRecord ==
    <<78, 89, 83, 77, 1, 10, 8, 60, 0, 0, 0, 32, 1, 128, 30,
      0, 0, 0, 0, 0, 0, 0, 0, 0, 0, 0, 0, 0, 0, 0, 0, 251, 65>>

(* C10: config_load never leaves an invalid record in memory: after it
   returns, for every storage content and every outcome of the storage read
   and of the fallback write, the in-memory record is valid (magic, checksum,
   channel in 1..16, note count in 1..16, low note <= 127, semitone mode <= 2);
   on any read or validation failure the record is the compiled-in defaults
   and a write of those defaults to storage has been attempted; otherwise the
   record is the stored one. *)
C10_LoadLeavesValidRecord ==
    [][(obs'.op = "config_init") =>
          /\ ValidRecord(settings')
          /\ (~obs'.bus_ok \/ ~ValidRecord(eeprom)) =>
                /\ obs'.kind = "Defaults"
                /\ settings' = DefaultsRecord
                /\ Len(obs'.cmds) >= 1
                /\ obs'.cmds[1].target = 0
                /\ obs'.cmds[1].value = SubSeq(DefaultsRecord, 1, 16)
                /\ obs'.result => eeprom' = DefaultsRecord
          /\ (obs'.bus_ok /\ ValidRecord(eeprom)) =>
                /\ obs'.kind = "Loaded" /\ obs'.result
                /\ settings' = eeprom /\ eeprom' = eeprom
                /\ obs'.cmds = <<>>]_vars

\* The read went through, the stored record failed validation, the defaults
\* were loaded and the second page of the fallback write failed.
C10_Witness ==
    /\ obs.op = "config_init" /\ obs.bus_ok /\ obs.kind = "Defaults"
    /\ ~obs.result /\ Len(obs.cmds) = 2
    /\ settings = DefaultsRecord /\ eeprom # DefaultsRecord

----------------------------------------------------------------------------
(* SpecStore: the configuration store in service.  The device boots on a    *)
(* stored record (midi_handler_init), then one configuration call is made    *)
(* (a field update, an IO update, a save of the running policy, a plain      *)
(* save, an erase) or one byte of the stored record changes, and the device  *)
(* boots again.  Every page write and every read succeeds or fails.          *)

FullRecord == MakeRecord(CONFIG_MAGIC_NUMBER, CONFIG_VERSION, 16, 16, 127, 2, 1)

StoreContents == {BaseRecord, FullRecord, ZeroRecord}

UpdateParams == 0..4
UpdateValues == {0, 1, 2, 3, 16, 17, 127, 128, 255}
IoArgs == {<<1, 36>>, <<2, 36>>}
CorruptMasks == {CorruptMask, 128, 255}
PageOutcomes == 0..NumChunks(SettingsSize)

InitStore ==
    /\ player = "i2c_midi"
    /\ i2c_midi_ctx = I2cBlank
    /\ pca_ctx = PcaBlank
    /\ settings = ZeroRecord
    /\ eeprom \in StoreContents
    /\ mgr = MgrBlank
    /\ time_us = 0
    /\ pc = "boot"
    /\ obs = NoObs
    /\ rx = RxBlank
    /\ ui = UiBlank

StoreObs(op, a, b, r) ==
    [NoObs EXCEPT !.op = op, !.note = a, !.velocity = b, !.result = r.ok,
                  !.cmds = r.cmds]

\* midi_handler_init at power-up.
HandlerInit ==
    /\ pc \in {"boot", "up", "dirty", "corrupted"}
    /\ \E read_ok \in BOOLEAN, pages_ok \in PageOutcomes, mode \in Modes :
          \E r \in {midi_handler_init(ZeroRecord, eeprom, read_ok, pages_ok, mode)} :
              /\ settings' = r.settings
              /\ eeprom' = r.mem
              /\ mgr' = r.mgr
              /\ i2c_midi_ctx' = r.ctx
              /\ obs' = [NoObs EXCEPT !.op = "handler_init", !.kind = r.kind,
                                      !.result = r.ok, !.bus_ok = read_ok,
                                      !.cmds = r.cmds]
    /\ pc' = CASE pc = "boot" -> "up"
               [] pc = "corrupted" -> "recovered"
               [] OTHER -> "rebooted"
    /\ UNCHANGED <<player, pca_ctx, time_us, rx, ui>>

\* config_update_midi_setting, called as the SysEx handler calls it.
UpdateMidiSetting ==
    /\ pc = "up" /\ mgr.config_initialized
    /\ \E param \in UpdateParams, value \in UpdateValues, pages_ok \in PageOutcomes :
          \E r \in {config_update_midi_setting(mgr.initialized, settings, eeprom,
                                              param, value, pages_ok)} :
              /\ settings' = r.settings
              /\ eeprom' = r.mem
              /\ obs' = StoreObs("update_midi", param, value, r)
    /\ pc' = "dirty"
    /\ UNCHANGED <<player, i2c_midi_ctx, pca_ctx, mgr, time_us, rx, ui>>

\* config_update_io_settings.
UpdateIoSettings ==
    /\ pc = "up" /\ mgr.config_initialized
    /\ \E io \in IoArgs, pages_ok \in PageOutcomes :
          \E r \in {config_update_io_settings(mgr.initialized, settings, eeprom,
                                             io[1], io[2], pages_ok)} :
              /\ settings' = r.settings
              /\ eeprom' = r.mem
              /\ obs' = StoreObs("update_io", io[1], io[2], r)
    /\ pc' = "dirty"
    /\ UNCHANGED <<player, i2c_midi_ctx, pca_ctx, mgr, time_us, rx, ui>>

\* midi_handler_save_config.
SaveConfig ==
    /\ pc = "up"
    /\ \E pages_ok \in PageOutcomes :
          \E r \in {midi_handler_save_config(mgr, i2c_midi_ctx, settings, eeprom,
                                            pages_ok)} :
              /\ settings' = r.settings
              /\ eeprom' = r.mem
              /\ obs' = StoreObs("save_config", 0, 0, r)
    /\ pc' = "dirty"
    /\ UNCHANGED <<player, i2c_midi_ctx, pca_ctx, mgr, time_us, rx, ui>>

\* config_save on the record in memory; the call itself asks for no
\* initialised manager.
ConfigSave ==
    /\ pc = "up"
    /\ \E pages_ok \in PageOutcomes :
          \E r \in {config_save(settings, eeprom, pages_ok)} :
              /\ settings' = r.settings
              /\ eeprom' = r.mem
              /\ obs' = StoreObs("config_save", 0, 0, r)
    /\ pc' = "dirty"
    /\ UNCHANGED <<player, i2c_midi_ctx, pca_ctx, mgr, time_us, rx, ui>>

\* config_erase.
ConfigErase ==
    /\ pc = "up" /\ mgr.config_initialized
    /\ \E zero_pages_ok \in PageOutcomes, save_pages_ok \in PageOutcomes :
          \E r \in {config_erase(mgr.initialized, settings, eeprom, zero_pages_ok,
                                save_pages_ok)} :
              /\ settings' = r.settings
              /\ eeprom' = r.mem
              /\ obs' = StoreObs("config_erase", 0, 0, r)
    /\ pc' = "dirty"
    /\ UNCHANGED <<player, i2c_midi_ctx, pca_ctx, mgr, time_us, rx, ui>>

\* One byte of the stored record changes while the device is up on a record
\* it loaded or wrote.  obs keeps the position and the byte's former value.
CorruptByte ==
    /\ pc = "up" /\ obs.op = "handler_init" /\ obs.result
    /\ \E p \in 1..SettingsSize, mask \in CorruptMasks :
          /\ eeprom' = [eeprom EXCEPT ![p] = Xor(@, mask)]
          /\ obs' = [NoObs EXCEPT !.op = "corrupt", !.note = p,
                                  !.velocity = eeprom[p]]
    /\ pc' = "corrupted"
    /\ UNCHANGED <<player, i2c_midi_ctx, pca_ctx, settings, mgr, time_us, rx, ui>>

NextStore ==
    \/ HandlerInit
    \/ UpdateMidiSetting
    \/ UpdateIoSettings
    \/ SaveConfig
    \/ ConfigSave
    \/ ConfigErase
    \/ CorruptByte

SpecStore == InitStore /\ [][NextStore]_vars

----------------------------------------------------------------------------
(* Corruption recovery, round trip, rejected updates, failed writes, erase *)

\* Every page write of the call was accepted by the storage.
AllWritten(cmds, n) == Len(cmds) = n /\ \A k \in 1..n : cmds[k].ok

\* A page write of the call was refused by the storage.
WriteRefused(cmds) == Len(cmds) > 0 /\ ~cmds[Len(cmds)].ok

\* The bytes the page writes of a call carry, in order.
Written(cmds) ==
    IF Len(cmds) = 0 THEN <<>>
    ELSE LET cat[k \in 1..Len(cmds)] ==
                 IF k = 1 THEN cmds[1].value ELSE cat[k - 1] \o cmds[k].value
         IN  cat[Len(cmds)]

SavingOps == {"update_midi", "update_io", "save_config", "config_save", "config_erase"}

(* C11: starting from any valid persisted record, changing the value of any
   single byte of it (magic, version, a field, a reserved byte or a checksum
   byte) causes the next config_load to load the compiled-in defaults, whatever
   the read returns, and to write them back: the default record is persisted
   in storage and the load succeeds exactly when the storage accepts every
   page of that write. *)
C11_CorruptionRecovery ==
    [][(/\ pc = "corrupted" /\ obs.op = "corrupt"
        /\ eeprom[obs.note] # obs.velocity
        /\ ValidRecord([eeprom EXCEPT ![obs.note] = obs.velocity])
        /\ obs'.op = "handler_init") =>
          /\ settings' = DefaultsRecord
          /\ obs'.kind = "Defaults"
          /\ Len(obs'.cmds) >= 1
          /\ Written(obs'.cmds) = SubSeq(DefaultsRecord, 1, Len(Written(obs'.cmds)))
          /\ obs'.result <=> AllWritten(obs'.cmds, 3)
          /\ obs'.result => eeprom' = DefaultsRecord]_vars

\* A byte of a loaded record was changed, the next boot read the record,
\* fell back to the defaults and persisted them.
C11_Witness ==
    /\ pc = "recovered" /\ obs.op = "handler_init" /\ obs.bus_ok
    /\ obs.kind = "Defaults" /\ obs.result
    /\ settings = DefaultsRecord /\ eeprom = DefaultsRecord

(* C12: round trip: for every in-memory record, a successful save followed by
   a config_load that reads the storage yields an in-memory record equal,
   field by field, to the one saved, without falling back to the defaults. *)
C12_SaveLoadRoundTrip ==
    [][(/\ pc = "dirty" /\ obs.op \in SavingOps /\ obs.result
        /\ obs'.op = "handler_init" /\ obs'.bus_ok) =>
          /\ obs'.kind = "Loaded"
          /\ settings' = settings]_vars

\* The arguments of a configuration update that are out of range.
OutOfRangeUpdate(op, a, b) ==
    \/ /\ op = "update_midi"
       /\ \/ a = 0 /\ b \notin 1..16
          \/ a = 1 /\ b \notin 1..16
          \/ a = 2 /\ b > 127
          \/ a = 3 /\ b > 2
          \/ a \notin 0..3
    \/ op = "update_io" /\ a > 1

(* C13: a configuration update with an out-of-range value (channel outside
   1..16, note count outside 1..16, low note > 127, semitone mode > 2, IO
   expander type > 1) or an unknown parameter id returns false, issues no
   storage write, and leaves every field of the in-memory record, and the
   storage, unchanged. *)
C13_RejectedUpdateChangesNothing ==
    [][OutOfRangeUpdate(obs'.op, obs'.note, obs'.velocity) =>
          /\ ~obs'.result
          /\ obs'.cmds = <<>>
          /\ settings' = settings
          /\ eeprom' = eeprom]_vars

\* A note count of 17 was refused on a device running on a loaded record.
C13_Witness ==
    /\ pc = "dirty" /\ obs.op = "update_midi" /\ obs.note = 1 /\ obs.velocity = 17
    /\ ~obs.result /\ obs.cmds = <<>>
    /\ settings = BaseRecord /\ eeprom = BaseRecord

(* C14: when the storage write fails during a field update, at any of the
   page-sized chunks the record is split into, the update returns false and
   the persisted record in storage is unchanged from before the call. *)
C14_FailedUpdateLeavesStorage ==
    [][(obs'.op \in {"update_midi", "update_io"} /\ WriteRefused(obs'.cmds)) =>
          /\ ~obs'.result
          /\ eeprom' = eeprom]_vars

(* C15: config_save recomputes the checksum over all bytes of the in-memory
   record except the checksum field and writes the full record; when the
   storage write fails it returns false and the in-memory copy is not
   corrupted: every non-checksum field keeps its value and the in-memory
   checksum matches those fields.  Every call that ends in config_save leaves
   the checksum matching, writes the bytes of the record in memory from
   offset 0 on, and succeeds exactly when all of them were accepted. *)
C15_SaveKeepsMemory ==
    [][(obs'.op \in SavingOps /\ Len(obs'.cmds) > 0 /\ obs'.op # "config_erase") =>
          /\ StoredCrc(settings') = calculate_crc16(settings', SettingsSize - 2)
          /\ (obs'.op = "config_save") =>
                SubSeq(settings', 1, SettingsSize - 2) = SubSeq(settings, 1, SettingsSize - 2)
          /\ obs'.cmds[1].target = 0
          /\ Written(obs'.cmds) = SubSeq(settings', 1, Len(Written(obs'.cmds)))
          /\ obs'.result <=> AllWritten(obs'.cmds, 3)
          /\ obs'.result => (Written(obs'.cmds) = settings' /\ eeprom' = settings')
          /\ WriteRefused(obs'.cmds) => ~obs'.result]_vars

\* A plain save whose second page was refused: the record in memory is the
\* defaults, intact, and storage holds something else.
C15_Witness ==
    /\ obs.op = "config_save" /\ ~obs.result /\ Len(obs.cmds) = 2
    /\ settings = DefaultsRecord /\ eeprom # DefaultsRecord

(* C16: config_erase overwrites the record's storage region with zero bytes,
   reloads the compiled-in defaults into memory and saves them: after it
   returns true, the in-memory record equals the defaults, storage holds the
   default record with a matching checksum, and a subsequent config_load that
   reads the storage returns the defaults without taking the fallback path. *)
C16_EraseRestoresDefaults ==
    [][/\ (obs'.op = "config_erase" /\ obs'.result) =>
             /\ settings' = DefaultsRecord
             /\ eeprom' = DefaultsRecord
             /\ ValidRecord(eeprom')
             /\ Len(obs'.cmds) = 6
             /\ Written(SubSeq(obs'.cmds, 1, 3)) = [i \in 1..33 |-> 0]
             /\ Written(SubSeq(obs'.cmds, 4, 6)) = DefaultsRecord
       /\ (/\ obs.op = "config_erase" /\ obs.result
           /\ obs'.op = "handler_init" /\ obs'.bus_ok) =>
             /\ obs'.kind = "Loaded" /\ obs'.result
             /\ obs'.cmds = <<>>
             /\ settings' = DefaultsRecord
             /\ eeprom' = DefaultsRecord]_vars

\* An erase went through on a device that had loaded another record.
C16_Witness ==
    /\ obs.op = "config_erase" /\ obs.result /\ Len(obs.cmds) = 6
    /\ settings = DefaultsRecord /\ eeprom = DefaultsRecord
    /\ i2c_midi_ctx.config.midi_channel = 16

----------------------------------------------------------------------------
(* SpecStrike: the strike timer of the servo bank around the wrap of the     *)
(* 32-bit clock.  The bank is initialised with its defaults and every servo  *)
(* rests; the clock stands StrikeLead steps before it wraps to 0.  As in the *)
(* main loop, note messages are processed, pca9685_midi_update is polled,    *)
(* and the clock advances after a poll, by half a strike duration a step.    *)

StrikeLead == 3
StrikeSpan == 6

StrikeDuration == (PCA9685_MIDI_DEFAULT_STRIKE_DURATION_MS * 1000) \div UsPerUnit
StrikeStep == StrikeDuration \div 2
StrikeStatuses == {MIDI_NOTE_OFF + PCA9685_MIDI_DEFAULT_CHANNEL,
                   MIDI_NOTE_ON + PCA9685_MIDI_DEFAULT_CHANNEL}

\* How far the clock value t is into the modelled stretch of time.
WindowPos(t) == U32(t + StrikeLead * StrikeStep)

InitStrike ==
    /\ player = "pca9685"
    /\ i2c_midi_ctx = I2cBlank
    /\ pca_ctx = pca9685_midi_init(PcaBlank, TRUE)
    /\ settings = <<>>
    /\ eeprom = <<>>
    /\ mgr = MgrBlank
    /\ time_us = U32(ClockModulus - StrikeLead * StrikeStep)
    /\ pc = "run"
    /\ obs = NoObs
    /\ rx = RxBlank
    /\ ui = UiBlank

\* A note message reaches the bank.  A NoteOn is taken only while its return
\* time still lies within the modelled stretch of time.
StrikeMessage ==
    /\ pc = "run" /\ player = "pca9685"
    /\ \E status \in StrikeStatuses, note \in DispatchNotes,
          velocity \in DispatchVelocities, bus_ok \in BOOLEAN :
          \E r \in {pca9685_midi_process_message(pca_ctx, status, note, velocity,
                                                 time_us, bus_ok)} :
             /\ (r.route.kind = "NoteOn")
                   => (WindowPos(time_us) + StrikeDuration <= StrikeSpan * StrikeStep)
             /\ pca_ctx' = r.ctx
             /\ obs' = [op |-> "process", status |-> status, note |-> note,
                        velocity |-> velocity, kind |-> r.route.kind,
                        index |-> r.route.index, result |-> r.ok,
                        bus_ok |-> bus_ok, cmds |-> r.cmds]
    /\ UNCHANGED <<player, i2c_midi_ctx, settings, eeprom, mgr, time_us, pc, rx, ui>>

\* The main loop sleeps after the poll: the clock advances.
ClockStep ==
    /\ pc = "run" /\ player = "pca9685"
    /\ obs.op = "update"
    /\ WindowPos(time_us) < StrikeSpan * StrikeStep
    /\ time_us' = U32(time_us + StrikeStep)
    /\ obs' = [NoObs EXCEPT !.op = "sleep"]
    /\ UNCHANGED <<player, i2c_midi_ctx, pca_ctx, settings, eeprom, mgr, pc, rx, ui>>

NextStrike ==
    \/ StrikeMessage
    \/ Update
    \/ ClockStep

SpecStrike == InitStrike /\ [][NextStrike]_vars

\* The poll is called in every iteration of the main loop, and the loop sleeps
\* after every poll.
SpecStrikeFair == SpecStrike /\ WF_vars(Update) /\ SF_vars(ClockStep)

----------------------------------------------------------------------------
(* Strike timing *)

Striking(i) == pca_ctx.servo_states[i].striking

Idle(i) ==
    /\ ~pca_ctx.servo_states[i].striking
    /\ pca_ctx.servo_states[i].return_time = 0
    /\ pca_ctx.servo_states[i].current_angle = pca_ctx.config.rest_angle

Duration == (pca_ctx.config.strike_duration_ms * 1000) \div UsPerUnit

\* The clock value at which a Striking channel was armed, and the time that
\* has passed since, both modulo the width of the clock.
ArmTime(i) == U32(pca_ctx.servo_states[i].return_time + ClockModulus - Duration)
Elapsed(i) == U32(time_us + ClockModulus - ArmTime(i))

\* The number of rest-angle commands for channel i among cmds.
RestCount(cmds, i) ==
    Cardinality({k \in DOMAIN cmds : /\ cmds[k].target = i
                                      /\ cmds[k].value = pca_ctx.config.rest_angle})

(* C17: once the return time of a Striking channel has elapsed, an update
   issues the rest-angle command for it exactly once and makes it Idle; an
   update finding the channel Idle (a repeated update at the same or a later
   time) issues no rest command for it and leaves its state unchanged. *)
C17_UpdateRestsOnce ==
    [][(obs'.op = "update")
       => \A i \in Servos :
             /\ (Striking(i) /\ Elapsed(i) >= Duration)
                   => (/\ RestCount(obs'.cmds, i) = 1
                       /\ pca_ctx'.servo_states[i] = RestState(pca_ctx.config))
             /\ (~Striking(i))
                   => (/\ RestCount(obs'.cmds, i) = 0
                       /\ pca_ctx'.servo_states[i] = pca_ctx.servo_states[i])]_vars

(* C18: an update polled while less than the strike duration has elapsed
   since a channel was armed issues no command for the channel and leaves it
   Striking, whatever the clock value at which it was armed. *)
C18_NoRestBeforeReturnTime ==
    [][(obs'.op = "update")
       => \A i \in Servos :
             (Striking(i) /\ Elapsed(i) < Duration)
                => (/\ RestCount(obs'.cmds, i) = 0
                    /\ pca_ctx'.servo_states[i] = pca_ctx.servo_states[i])]_vars

(* C19: every channel that is Striking is eventually Idle again, the poll
   being called and the clock advancing, without a NoteOff being needed. *)
C19_StrikingReturnsToIdle ==
    \A i \in Servos : [](Striking(i) => <>(~Striking(i)))

(* C20: an accepted NoteOff commands the rest angle at once and leaves the
   channel Idle at the rest angle with its timer disarmed, whether it was
   Striking or Idle; and an Idle channel stays as it is, no update issuing a
   rest command for it, until a NoteOn for it is accepted. *)
C20_NoteOffDisarms ==
    [][/\ (obs'.op = "process" /\ obs'.kind = "NoteOff")
            => (/\ obs'.result
                /\ Len(obs'.cmds) = 1
                /\ RestCount(obs'.cmds, obs'.index) = 1
                /\ pca_ctx'.servo_states =
                      [pca_ctx.servo_states EXCEPT ![obs'.index] =
                          [current_angle |-> pca_ctx.config.rest_angle,
                           striking |-> FALSE, return_time |-> 0]])
       /\ \A i \in Servos :
             (/\ Idle(i)
              /\ ~(obs'.op = "process" /\ obs'.kind = "NoteOn" /\ obs'.index = i))
                => (/\ pca_ctx'.servo_states[i] = pca_ctx.servo_states[i]
                    /\ (obs'.op = "update") => (RestCount(obs'.cmds, i) = 0))]_vars

\* A NoteOff has just been accepted and has left its channel Idle, while the
\* strike of another channel is still in progress.
C20_Witness ==
    /\ obs.op = "process" /\ obs.kind = "NoteOff" /\ obs.result
    /\ RestCount(obs.cmds, obs.index) = 1
    /\ Idle(obs.index)
    /\ \E j \in Servos : j # obs.index /\ Striking(j) /\ Elapsed(j) < Duration

----------------------------------------------------------------------------
(* Rest state, policy setters and rejected messages (SpecDispatch) *)

\* Every actuation channel of the backend in use is in its rest state.
AllAtRest ==
    /\ (player = "i2c_midi") => (i2c_midi_ctx.pin_state = 0)
    /\ (player = "pca9685")
          => (\A i \in Servos :
                 pca_ctx.servo_states[i] =
                    [current_angle |-> pca_ctx.config.rest_angle,
                     striking |-> FALSE, return_time |-> 0])

(* C21: after init and after "all notes off" every actuation channel is in
   its rest state (pin bits off; servos at the rest angle, not Striking, timer
   disarmed); the channels stay at rest, and an update issues no backend
   command, until a NoteOn is accepted. *)
C21_RestAfterInitAndAllNotesOff ==
    /\ AllAtRest
    /\ [][/\ (obs'.op = "all_notes_off" /\ (player = "pca9685" => obs'.result))
                => (/\ AllAtRest'
                    /\ ((player = "i2c_midi" /\ obs'.result)
                           => (i2c_midi_ctx'.drv_pin_state = 0)))
          /\ (AllAtRest /\ ~(obs'.op = "process" /\ obs'.kind = "NoteOn"))
                => (/\ AllAtRest'
                    /\ ((obs'.op = "update" /\ time_us' = time_us)
                           => (obs'.cmds = <<>>)))]_vars

\* "All notes off" has just put a servo bank to rest, some time after start.
C21_Witness ==
    /\ player = "pca9685" /\ time_us > 0
    /\ obs.op = "all_notes_off" /\ obs.result /\ Len(obs.cmds) = 1
    /\ AllAtRest

\* The high note that the policy's low_note, note_range and semitone_mode give.
DerivedHighNote ==
    IF player = "i2c_midi"
    THEN calculate_high_note(Policy.low_note, Policy.note_range, Policy.semitone_mode)
    ELSE pca_calculate_high_note(Policy.low_note, Policy.note_range, Policy.semitone_mode)

(* C22: after any sequence of init and setter operations the policy's
   high_note is the value derived from its current low_note, note_range and
   semitone_mode. *)
C22_HighNoteDerived == Policy.high_note = DerivedHighNote

PolicyInBounds ==
    /\ Policy.low_note <= 127
    /\ Policy.note_range >= 1 /\ Policy.note_range <= MaxNoteRange
    /\ Policy.semitone_mode \in Modes
    /\ Policy.midi_channel \in (0..15) \cup {ALL_CHANNELS}

\* The call that obs' records was given an argument outside its bounds.
SetterArgumentOutOfRange ==
    \/ obs'.op = "set_channel" /\ obs'.note > 15 /\ obs'.note # ALL_CHANNELS
    \/ obs'.op = "set_note_range"
          /\ (obs'.note > 127 \/ obs'.velocity > 127 \/ obs'.note > obs'.velocity
               \/ obs'.velocity - obs'.note + 1 > MaxNoteRange)
    \/ obs'.op = "set_semitone_mode" /\ obs'.note \notin Modes

(* C23: after any sequence of setter calls the policy satisfies
   low_note <= 127, 1 <= note_range <= 16, semitone_mode in {Play, Ignore,
   Skip} and midi_channel in 0..15 or the all-channels sentinel; a setter call
   with an out-of-range argument changes no policy field. *)
C23_SettersValidateBounds ==
    /\ []PolicyInBounds
    /\ [][SetterArgumentOutOfRange
            => (i2c_midi_ctx'.config = i2c_midi_ctx.config
                /\ pca_ctx'.config = pca_ctx.config)]_vars

(* C24: a message rejected by routing (channel mismatch, a kind other than
   Note-On/Note-Off, a semitone in Ignore mode, a note outside the window)
   issues no backend command, returns false and leaves the routing policy and
   the state of every actuation channel unchanged. *)
C24_RejectedMessageHasNoEffect ==
    [][(obs'.op = "process" /\ obs'.kind = "Rejected")
       => (/\ obs'.cmds = <<>>
           /\ ~obs'.result
           /\ i2c_midi_ctx' = i2c_midi_ctx
           /\ pca_ctx' = pca_ctx)]_vars

\* A control-change message on the router's channel, for a note inside the
\* window, was rejected while a pin was on.
C24_Witness ==
    /\ player = "i2c_midi" /\ obs.op = "process" /\ obs.kind = "Rejected"
    /\ (obs.status % 16) + 1 = Policy.midi_channel
    /\ obs.status - (obs.status % 16) \notin {MIDI_NOTE_ON, MIDI_NOTE_OFF}
    /\ InWindow(obs.note)
    /\ i2c_midi_ctx.pin_state # 0
    /\ obs.cmds = <<>>

(* C27: pin bank: an accepted NoteOn routed to an index below the capacity
   reported by io_get_max_pins, the bus working, returns true, drives the pin
   high and makes the channel read as on in pin_state; the matching NoteOff
   returns true, drives the pin low and makes the channel read as off. *)
C27_PinFollowsNote ==
    [][(/\ player = "i2c_midi"
        /\ obs'.op = "process" /\ obs'.kind # "Rejected" /\ obs'.bus_ok
        /\ obs'.index < io_get_max_pins(i2c_midi_ctx.config))
       => (/\ obs'.result
           /\ TestBit(i2c_midi_ctx'.drv_pin_state, obs'.index) = (obs'.kind = "NoteOn")
           /\ TestBit(i2c_midi_ctx'.pin_state, obs'.index) = (obs'.kind = "NoteOn"))]_vars


----------------------------------------------------------------------------
(* SpecHandler: the device boots on some stored record (midi_handler_init),  *)
(* receives MIDI messages (note messages and up to two SysEx messages),      *)
(* saves its configuration or resets it to the defaults, and boots again.    *)

\* Whether every page write of a SysEx command or a save succeeds, or none.
HandlerPageOutcomes == {0, NumChunks(SettingsSize)}

SysexMessages ==
    {<<SYSEX_START, SYSEX_MANUFACTURER_ID, SYSEX_DEVICE_ID, SYSEX_END>>,
     <<SYSEX_START, 126, SYSEX_DEVICE_ID, SYSEX_CMD_SET_CHANNEL, 5, SYSEX_END>>,
     <<SYSEX_START, SYSEX_MANUFACTURER_ID, 1, SYSEX_CMD_CONFIG_MIDI_CHANNEL, 3, SYSEX_END>>,
     <<SYSEX_START, SYSEX_MANUFACTURER_ID, SYSEX_DEVICE_ID, SYSEX_CMD_SET_NOTE_RANGE, 60, 83, SYSEX_END>>,
     <<SYSEX_START, SYSEX_MANUFACTURER_ID, SYSEX_DEVICE_ID, SYSEX_CMD_SET_NOTE_RANGE, 70, 60, SYSEX_END>>,
     <<SYSEX_START, SYSEX_MANUFACTURER_ID, SYSEX_DEVICE_ID, SYSEX_CMD_SET_CHANNEL, 0, SYSEX_END>>,
     <<SYSEX_START, SYSEX_MANUFACTURER_ID, SYSEX_DEVICE_ID, SYSEX_CMD_SET_CHANNEL, 15, SYSEX_END>>,
     <<SYSEX_START, SYSEX_MANUFACTURER_ID, SYSEX_DEVICE_ID, SYSEX_CMD_SET_CHANNEL, 16, SYSEX_END>>,
     <<SYSEX_START, SYSEX_MANUFACTURER_ID, SYSEX_DEVICE_ID, SYSEX_CMD_SET_CHANNEL, SYSEX_END>>,
     <<SYSEX_START, SYSEX_MANUFACTURER_ID, SYSEX_DEVICE_ID, SYSEX_CMD_SET_SEMITONE_MODE, 2, SYSEX_END>>,
     <<SYSEX_START, SYSEX_MANUFACTURER_ID, SYSEX_DEVICE_ID, SYSEX_CMD_SET_SEMITONE_MODE, 3, SYSEX_END>>,
     <<SYSEX_START, SYSEX_MANUFACTURER_ID, SYSEX_DEVICE_ID, SYSEX_CMD_CONFIG_MIDI_CHANNEL, 1, SYSEX_END>>,
     <<SYSEX_START, SYSEX_MANUFACTURER_ID, SYSEX_DEVICE_ID, SYSEX_CMD_CONFIG_MIDI_CHANNEL, 16, SYSEX_END>>,
     <<SYSEX_START, SYSEX_MANUFACTURER_ID, SYSEX_DEVICE_ID, SYSEX_CMD_CONFIG_MIDI_CHANNEL, 17, SYSEX_END>>,
     <<SYSEX_START, SYSEX_MANUFACTURER_ID, SYSEX_DEVICE_ID, SYSEX_CMD_CONFIG_NOTE_RANGE, 16, SYSEX_END>>,
     <<SYSEX_START, SYSEX_MANUFACTURER_ID, SYSEX_DEVICE_ID, SYSEX_CMD_CONFIG_LOW_NOTE, 36, SYSEX_END>>,
     <<SYSEX_START, SYSEX_MANUFACTURER_ID, SYSEX_DEVICE_ID, SYSEX_CMD_CONFIG_SEMITONE_MODE, 2, SYSEX_END>>,
     <<SYSEX_START, SYSEX_MANUFACTURER_ID, SYSEX_DEVICE_ID, SYSEX_CMD_CONFIG_IO_TYPE, 1, 36, SYSEX_END>>,
     <<SYSEX_START, SYSEX_MANUFACTURER_ID, SYSEX_DEVICE_ID, SYSEX_CMD_CONFIG_DISPLAY_ENABLE, 0, SYSEX_END>>,
     <<SYSEX_START, SYSEX_MANUFACTURER_ID, SYSEX_DEVICE_ID, SYSEX_CMD_CONFIG_RESET_DEFAULTS, SYSEX_END>>}

\* Note messages on the channels the stored records and the defaults select.
HandlerStatuses == {MIDI_NOTE_ON + 4, MIDI_NOTE_ON + 9, MIDI_NOTE_ON + 15}
HandlerNotes == {48, 60, 127}

\* The status low nibbles whose messages pass the router's channel test.
AcceptedNibbles(config) == {k \in 0..15 : k + 1 = config.midi_channel}

\* A SysEx message as its sender addressed it: long enough, with this
\* device's manufacturer and device ID.
SysexClass(bytes) ==
    IF /\ Len(bytes) >= 5
       /\ bytes[2] = SYSEX_MANUFACTURER_ID
       /\ bytes[3] = SYSEX_DEVICE_ID
    THEN "Addressed" ELSE "Foreign"

InitHandler ==
    /\ player = "i2c_midi"
    /\ i2c_midi_ctx = I2cBlank
    /\ pca_ctx = PcaBlank
    /\ settings = ZeroRecord
    /\ eeprom \in StoreContents
    /\ mgr = MgrBlank
    /\ time_us = 0
    /\ pc = "boot"
    /\ obs = NoObs
    /\ rx = RxBlank
    /\ ui = UiBlank

\* midi_handler_init at power-up, and again after a save or a reset.
HandlerBoot ==
    /\ pc \in {"boot", "saved"}
    /\ \E read_ok \in BOOLEAN, pages_ok \in HandlerPageOutcomes, mode \in Modes :
          \E r \in {midi_handler_init(ZeroRecord, eeprom, read_ok, pages_ok, mode)} :
              /\ settings' = r.settings
              /\ eeprom' = r.mem
              /\ mgr' = r.mgr
              /\ i2c_midi_ctx' = r.ctx
              /\ obs' = [NoObs EXCEPT !.op = "handler_init", !.kind = r.kind,
                                      !.result = r.ok, !.bus_ok = read_ok,
                                      !.cmds = r.cmds]
    /\ pc' = IF pc = "boot" THEN "s0" ELSE "rebooted"
    /\ UNCHANGED <<player, pca_ctx, time_us, rx, ui>>

\* internal_midi_handler on a note message.
HandlerNote ==
    /\ pc \in {"s0", "s1"} /\ obs.op # "process"
    /\ \E status \in HandlerStatuses, note \in HandlerNotes :
          \E r \in {i2c_midi_process_message(i2c_midi_ctx, status, note, RouteVelocity,
                                             TRUE)} :
              /\ i2c_midi_ctx' = r.ctx
              /\ obs' = [NoObs EXCEPT !.op = "process", !.status = status,
                                      !.note = note, !.velocity = RouteVelocity,
                                      !.kind = i2c_route(i2c_midi_ctx.config, status, note,
                                                         RouteVelocity).kind,
                                      !.result = r.ok, !.cmds = r.cmds]
    /\ UNCHANGED <<player, pca_ctx, settings, eeprom, mgr, time_us, pc, rx, ui>>

\* internal_midi_handler on the bytes of one SysEx message.  obs keeps the
\* command byte, the first data byte and the number of bytes collected.
Sysex ==
    /\ pc \in {"s0", "s1"}
    /\ \E bytes \in SysexMessages, pages_ok \in HandlerPageOutcomes :
          \E r \in {process_sysex_message(sysex_receive(bytes), mgr, i2c_midi_ctx,
                                          settings, eeprom, pages_ok)} :
              /\ i2c_midi_ctx' = r.ctx
              /\ settings' = r.settings
              /\ eeprom' = r.mem
              /\ obs' = [NoObs EXCEPT !.op = "sysex", !.status = bytes[4],
                                      !.note = IF Len(bytes) >= 5 THEN bytes[5] ELSE 0,
                                      !.index = Len(bytes), !.kind = SysexClass(bytes),
                                      !.result = r.ok, !.cmds = r.cmds]
    /\ pc' = IF pc = "s0" THEN "s1" ELSE "s2"
    /\ UNCHANGED <<player, pca_ctx, mgr, time_us, rx, ui>>

\* midi_handler_save_config.
HandlerSave ==
    /\ pc \in {"s0", "s1", "s2"}
    /\ \E pages_ok \in HandlerPageOutcomes :
          \E r \in {midi_handler_save_config(mgr, i2c_midi_ctx, settings, eeprom,
                                            pages_ok)} :
              /\ settings' = r.settings
              /\ eeprom' = r.mem
              /\ obs' = StoreObs("save_config", 0, 0, r)
    /\ pc' = "saved"
    /\ UNCHANGED <<player, i2c_midi_ctx, pca_ctx, mgr, time_us, rx, ui>>

\* midi_handler_reset_to_defaults.
HandlerReset ==
    /\ pc \in {"s0", "s1", "s2"}
    /\ \E pages_ok \in HandlerPageOutcomes :
          \E r \in {midi_handler_reset_to_defaults(eeprom, pages_ok)} :
              /\ settings' = r.settings
              /\ eeprom' = r.mem
              /\ obs' = StoreObs("reset_to_defaults", 0, 0, r)
    /\ pc' = "saved"
    /\ UNCHANGED <<player, i2c_midi_ctx, pca_ctx, mgr, time_us, rx, ui>>

NextHandler == HandlerBoot \/ HandlerNote \/ Sysex \/ HandlerSave \/ HandlerReset

SpecHandler == InitHandler /\ [][NextHandler]_vars


----------------------------------------------------------------------------
(* SysEx addressing, the channel getter and persisted policy (SpecHandler) *)

(* C25: a SysEx message that is not addressed to this device (fewer than 5   *)
(* bytes, or another manufacturer ID than 0x7D, or another device ID than    *)
(* 0x00) leaves the routing policy, the configuration in memory and in the   *)
(* store, and the channel state unchanged, and writes nothing.               *)
C25_ForeignSysexChangesNothing ==
    [][(obs'.op = "sysex" /\ obs'.kind = "Foreign")
          => (/\ i2c_midi_ctx' = i2c_midi_ctx
              /\ settings' = settings
              /\ eeprom' = eeprom
              /\ mgr' = mgr
              /\ obs'.cmds = <<>>)]_vars

\* A persisted-channel command for another device ID has arrived while the
\* store was usable and a pin was on.
C25_Witness ==
    /\ obs.op = "sysex" /\ obs.kind = "Foreign"
    /\ obs.index >= 5 /\ obs.status = SYSEX_CMD_CONFIG_MIDI_CHANNEL
    /\ mgr.config_initialized
    /\ i2c_midi_ctx.pin_state # 0


(* C26: once the handler is initialised, midi_handler_get_channel returns n  *)
(* in 1..16 exactly when the router accepts the status low nibble n - 1, and *)
(* right after an initialisation that loaded a stored record with            *)
(* midi_channel = c it returns c.                                            *)
C26_GetChannelIsAcceptedChannel ==
    (pc # "boot")
        => /\ \A n \in 1..16 :
                 (midi_handler_get_channel(i2c_midi_ctx) = n)
                     <=> ((n - 1) \in AcceptedNibbles(i2c_midi_ctx.config))
           /\ (obs.op = "handler_init" /\ obs.result /\ obs.kind = "Loaded")
                 => (midi_handler_get_channel(i2c_midi_ctx) = settings[OffMidiChannel])

\* The policy two router contexts route by: accepted channel, low note,
\* note count and semitone mode.
SameRuntimePolicy(a, b) ==
    /\ AcceptedNibbles(a) = AcceptedNibbles(b)
    /\ a.low_note = b.low_note
    /\ a.note_range = b.note_range
    /\ a.semitone_mode = b.semitone_mode

(* C28: when midi_handler_save_config has returned true and the device then  *)
(* initialises again from the store (the read succeeding), the router's      *)
(* policy after the initialisation is the policy it had at the save.         *)
C28_SaveThenInitKeepsPolicy ==
    [][(/\ pc = "saved" /\ obs.op = "save_config" /\ obs.result
        /\ obs'.op = "handler_init" /\ obs'.bus_ok)
          => SameRuntimePolicy(i2c_midi_ctx'.config, i2c_midi_ctx.config)]_vars

\* The field of the router's policy a persisted-configuration command is
\* about agrees with the record in memory.
RuntimeAgreesWithRecord(command, config, rec) ==
    CASE command = SYSEX_CMD_CONFIG_MIDI_CHANNEL ->
           AcceptedNibbles(config) = {rec[OffMidiChannel] - 1}
      [] command = SYSEX_CMD_CONFIG_NOTE_RANGE ->
           config.note_range = rec[OffNoteRange]
      [] command = SYSEX_CMD_CONFIG_LOW_NOTE ->
           /\ config.low_note = rec[OffLowNote]
           /\ config.high_note = calculate_high_note(config.low_note, config.note_range,
                                                     config.semitone_mode)
      [] command = SYSEX_CMD_CONFIG_SEMITONE_MODE ->
           config.semitone_mode = rec[OffSemitoneMode]
      [] OTHER -> TRUE

(* C29: after an addressed SysEx command 0x20 (channel), 0x21 (note range),  *)
(* 0x22 (low note) or 0x23 (semitone mode) was accepted and saved, the       *)
(* router's policy uses the value just persisted: the record in memory holds *)
(* the value sent, and the router's accepted channel, note count, low note   *)
(* (high note rederived) or semitone mode agrees with it.                    *)
C29_PersistedSysexReachesRuntime ==
    [][(/\ obs'.op = "sysex" /\ obs'.kind = "Addressed" /\ obs'.result
        /\ obs'.status \in {SYSEX_CMD_CONFIG_MIDI_CHANNEL, SYSEX_CMD_CONFIG_NOTE_RANGE,
                            SYSEX_CMD_CONFIG_LOW_NOTE, SYSEX_CMD_CONFIG_SEMITONE_MODE})
          => /\ settings'[CASE obs'.status = SYSEX_CMD_CONFIG_MIDI_CHANNEL -> OffMidiChannel
                            [] obs'.status = SYSEX_CMD_CONFIG_NOTE_RANGE -> OffNoteRange
                            [] obs'.status = SYSEX_CMD_CONFIG_LOW_NOTE -> OffLowNote
                            [] OTHER -> OffSemitoneMode] = obs'.note
             /\ eeprom' = settings'
             /\ RuntimeAgreesWithRecord(obs'.status, i2c_midi_ctx'.config, settings')]_vars

(* C30: every operation that reports success and wrote to the store leaves   *)
(* there a record that satisfies config_validate, and an initialisation that *)
(* follows a successful save or reset and reads the store loads the record   *)
(* instead of falling back to the defaults.                                  *)
C30_WrittenRecordsValidate ==
    [][/\ (obs'.op # "process" /\ obs'.result /\ obs'.cmds # <<>>)
            => config_validate(eeprom')
       /\ (/\ pc = "saved" /\ obs.result
           /\ obs'.op = "handler_init" /\ obs'.bus_ok) => (obs'.kind = "Loaded")]_vars


(* C31: while the configuration manager is not initialised (config_init did  *)
(* not succeed), the handler-level save, the reset to defaults and the SysEx *)
(* commands issue no page write and leave the store as it is.                *)
C31_NoWriteWithoutInitialisedManager ==
    [][(~mgr.initialized /\ obs'.op \in {"sysex", "save_config", "reset_to_defaults"})
          => (obs'.cmds = <<>> /\ eeprom' = eeprom)]_vars


----------------------------------------------------------------------------
(* Servo channel records (SpecStrike) *)

(* C32: in every reachable state of the servo bank, each channel is marked   *)
(* striking exactly when its return time is armed (return_time # 0), and a   *)
(* channel that is not striking stands at the configured rest angle.         *)
C32_StrikingIffArmed ==
    \A i \in Servos :
        /\ pca_ctx.servo_states[i].striking <=> (pca_ctx.servo_states[i].return_time # 0)
        /\ (~pca_ctx.servo_states[i].striking)
              => (pca_ctx.servo_states[i].current_angle = pca_ctx.config.rest_angle)


----------------------------------------------------------------------------
(* The two routers side by side (SpecRoute) *)

\* The pin bank's policy and the servo bank's context for one and the same
\* low note, note count and semitone mode, each as its own initialisation
\* derives it.
PinTwin(low, nr, mode) ==
    i2c_midi_init_with_config(
        [note_range |-> nr, low_note |-> low, high_note |-> U8(low + nr - 1),
         midi_channel |-> RouteChannel + 1, io_type |-> IO_EXPANDER_PCF8574,
         semitone_mode |-> mode]).config

ServoTwin(low, nr, mode) ==
    pca9685_midi_init_with_config(PcaBlank,
        [PcaDefaultConfig EXCEPT !.note_range = nr, !.low_note = low,
                                 !.semitone_mode = mode, !.midi_channel = RouteChannel],
        TRUE)

(* C33: for the same low_note, note_count and semitone mode the pin-bank     *)
(* router and the servo-bank router derive the same high_note, and for a     *)
(* note message on the matching channel they take the same accept/reject     *)
(* decision and compute the same output index.                               *)
C33_RoutersAgree ==
    \E a \in {PinTwin(Policy.low_note, Policy.note_range, Policy.semitone_mode)},
       b \in {ServoTwin(Policy.low_note, Policy.note_range, Policy.semitone_mode)} :
        /\ a.high_note = b.config.high_note
        /\ (obs.op = "process")
              => (i2c_route(a, obs.status, obs.note, obs.velocity)
                    = pca_route(b, obs.status, obs.note, obs.velocity))


(* C34: in Ignore or Skip mode, for every low_note in 0..127 and note_count  *)
(* in 1..16 the derived high_note lies in [low_note, 127], and it is 127,    *)
(* the note the iteration stops at, when fewer than note_count non-semitone  *)
(* notes exist from low_note up to 127.                                      *)
C34_HighNoteClampedAt127 ==
    (Policy.semitone_mode \in {SEMITONE_IGNORE, SEMITONE_SKIP})
        => /\ Policy.low_note <= Policy.high_note
           /\ Policy.high_note <= MaxNote
           /\ (CountWhole(Policy.low_note, MaxNote) < Policy.note_range)
                 => (Policy.high_note = MaxNote)


----------------------------------------------------------------------------
(* SpecSysex: the handler, initialised from a stored record, is fed the      *)
(* packets of a few USB transfers one at a time: whole SysEx messages, heads *)
(* and tails of messages, a run of data bytes that overfills the buffer, a   *)
(* stray end byte, and note messages in between.                             *)

MaxSegments == 5
FillLength == 30

SysexItem(byte) == <<byte, 0, 0>>

UsbSegments ==
    {<<SysexItem(SYSEX_START), SysexItem(SYSEX_MANUFACTURER_ID), SysexItem(SYSEX_DEVICE_ID),
       SysexItem(SYSEX_CMD_SET_CHANNEL), SysexItem(3), SysexItem(SYSEX_END)>>,
     <<SysexItem(SYSEX_START), SysexItem(SYSEX_MANUFACTURER_ID), SysexItem(SYSEX_DEVICE_ID)>>,
     <<SysexItem(SYSEX_CMD_SET_CHANNEL), SysexItem(3), SysexItem(SYSEX_END)>>,
     <<<<MIDI_NOTE_ON + 4, 48, RouteVelocity>>>>,
     [i \in 1..FillLength |-> SysexItem(1)],
     <<SysexItem(SYSEX_END)>>}

InitSysex ==
    /\ player = "i2c_midi"
    /\ \E r \in {midi_handler_init(ZeroRecord, BaseRecord, TRUE, NumChunks(SettingsSize),
                                    SEMITONE_PLAY)} :
          /\ i2c_midi_ctx = r.ctx
          /\ settings = r.settings
          /\ eeprom = r.mem
          /\ mgr = r.mgr
    /\ pca_ctx = PcaBlank
    /\ time_us = 0
    /\ pc = "run"
    /\ obs = [NoObs EXCEPT !.op = "handler_init", !.result = TRUE]
    /\ rx = RxBlank
    /\ ui = UiBlank

\* The host sends a transfer; its packets wait in the endpoint.
UsbReceive ==
    /\ rx.usb_fifo = <<>> /\ rx.usb_segments < MaxSegments
    /\ \E seg \in UsbSegments :
          rx' = [rx EXCEPT !.usb_fifo = seg, !.usb_segments = @ + 1]
    /\ obs' = [NoObs EXCEPT !.op = "usb_receive"]
    /\ UNCHANGED <<player, i2c_midi_ctx, pca_ctx, settings, eeprom, mgr, time_us, pc, ui>>

\* usb_midi_task reads one packet and calls internal_midi_handler with it.
MidiIn ==
    /\ rx.usb_fifo # <<>>
    /\ \E item \in {Head(rx.usb_fifo)} :
          \E r \in {internal_midi_handler(rx, mgr, i2c_midi_ctx, settings, eeprom,
                                          item[1], item[2], item[3], TRUE,
                                          NumChunks(SettingsSize))} :
              /\ rx' = [r.rx EXCEPT !.usb_fifo = Tail(rx.usb_fifo)]
              /\ i2c_midi_ctx' = r.ctx
              /\ settings' = r.settings
              /\ eeprom' = r.mem
              /\ ui' = midi_handler_ui(ui, rx, item[1], item[3])
              /\ obs' = [NoObs EXCEPT !.op = "midi_in", !.status = item[1],
                                      !.note = item[2], !.velocity = item[3],
                                      !.kind = r.kind, !.index = r.rx.sysex_index,
                                      !.result = r.ok, !.cmds = r.cmds]
    /\ UNCHANGED <<player, pca_ctx, mgr, time_us, pc>>

NextSysex == UsbReceive \/ MidiIn

SpecSysex == InitSysex /\ [][NextSysex]_vars

(* C35: for every packet given to the MIDI handler, the receive index stays  *)
(* at most 32 and the buffer keeps its 32 places; 0xF0 restarts reception    *)
(* with the byte at index 0; while a message is being received every byte is *)
(* stored in arrival order as long as the index is below 32 and no note is   *)
(* routed; the message is processed exactly at the byte 0xF7 that ends it,   *)
(* on the bytes collected; outside a message nothing is processed.           *)
C35_SysexReassembly ==
    [][(obs'.op = "midi_in")
          => /\ rx'.sysex_index <= SYSEX_BUFFER_SIZE
             /\ DOMAIN rx'.sysex_buffer = 1..SYSEX_BUFFER_SIZE
             /\ (obs'.status = SYSEX_START)
                   => (/\ rx'.sysex_receiving /\ rx'.sysex_index = 1
                       /\ rx'.sysex_buffer[1] = SYSEX_START
                       /\ obs'.kind = "Start"
                       /\ i2c_midi_ctx' = i2c_midi_ctx /\ settings' = settings
                       /\ eeprom' = eeprom)
             /\ (obs'.status # SYSEX_START /\ rx.sysex_receiving)
                   => (/\ rx'.sysex_buffer =
                             IF rx.sysex_index < SYSEX_BUFFER_SIZE
                             THEN [rx.sysex_buffer EXCEPT ![rx.sysex_index + 1] = obs'.status]
                             ELSE rx.sysex_buffer
                       /\ rx'.sysex_index =
                             IF rx.sysex_index < SYSEX_BUFFER_SIZE
                             THEN rx.sysex_index + 1 ELSE SYSEX_BUFFER_SIZE
                       /\ obs'.kind # "Note"
                       /\ i2c_midi_ctx'.pin_state = i2c_midi_ctx.pin_state
                       /\ i2c_midi_ctx'.drv_pin_state = i2c_midi_ctx.drv_pin_state
                       /\ (obs'.kind = "Sysex") <=> (obs'.status = SYSEX_END)
                       /\ rx'.sysex_receiving <=> (obs'.status # SYSEX_END)
                       /\ (obs'.status # SYSEX_END)
                             => (/\ i2c_midi_ctx' = i2c_midi_ctx /\ settings' = settings
                                 /\ eeprom' = eeprom))
             /\ (obs'.status # SYSEX_START /\ ~rx.sysex_receiving)
                   => (/\ obs'.kind = "Note"
                       /\ rx'.sysex_index = rx.sysex_index
                       /\ rx'.sysex_buffer = rx.sysex_buffer
                       /\ ~rx'.sysex_receiving
                       /\ i2c_midi_ctx'.config = i2c_midi_ctx.config
                       /\ settings' = settings /\ eeprom' = eeprom)]_vars

\* A message longer than the buffer has been processed on its first 32 bytes,
\* a note message having arrived in its middle while a pin was on.
C35_Witness ==
    /\ obs.op = "midi_in" /\ obs.kind = "Sysex"
    /\ rx.sysex_index = SYSEX_BUFFER_SIZE
    /\ rx.sysex_buffer[SYSEX_BUFFER_SIZE] # SYSEX_END
    /\ \E i \in 1..SYSEX_BUFFER_SIZE : rx.sysex_buffer[i] = MIDI_NOTE_ON + 4
    /\ i2c_midi_ctx.pin_state # 0

----------------------------------------------------------------------------
(* The button, polled by button_update (SpecButton) *)

\* The instants after an observed press at which the model polls: each side
\* of the debounce time and of the hold time.
ButtonOffsets == {49, 50, 2999, 3000}
ButtonIdleStep == 500
ButtonHorizon == 4000

\* The user interface after main's initialisation: display_handler_init,
\* button_init with BUTTON_PIN, button_set_callback, menu_init.
UiStarted(oled_ok) ==
    menu_init(button_set_callback(button_init(display_handler_init(UiBlank, oled_ok), BUTTON_PIN)))

\* The state main reaches before its loop, with the handler initialised from
\* the stored record rec.
InitMain(rec, oled_ok) ==
    /\ player = "i2c_midi"
    /\ \E r \in {midi_handler_init(ZeroRecord, rec, TRUE, NumChunks(SettingsSize),
                                    SEMITONE_PLAY)} :
          /\ i2c_midi_ctx = r.ctx
          /\ settings = r.settings
          /\ eeprom = r.mem
          /\ mgr = r.mgr
    /\ pca_ctx = PcaBlank
    /\ time_us = 0
    /\ rx = RxBlank
    /\ ui = UiStarted(oled_ok)

InitButton ==
    /\ InitMain(BaseRecord, TRUE)
    /\ pc = "run"
    /\ obs = [NoObs EXCEPT !.op = "button_init"]

\* The level of the button's pin changes: the button is pressed or let go.
\* pc is "edge" from a change of the level until the next poll.
ButtonPress ==
    /\ ~ui.is_pressed /\ ui.now_ms <= ButtonHorizon
    /\ ui' = [ui EXCEPT !.is_pressed = TRUE]
    /\ pc' = "edge"
    /\ obs' = [obs EXCEPT !.op = "press", !.kind = "NONE"]
    /\ UNCHANGED <<player, i2c_midi_ctx, pca_ctx, settings, eeprom, mgr, time_us, rx>>

ButtonRelease ==
    /\ ui.is_pressed
    /\ ui' = [ui EXCEPT !.is_pressed = FALSE]
    /\ pc' = "edge"
    /\ obs' = [obs EXCEPT !.op = "release", !.kind = "NONE"]
    /\ UNCHANGED <<player, i2c_midi_ctx, pca_ctx, settings, eeprom, mgr, time_us, rx>>

\* Time passes between two polls.  The main loop polls many times in a
\* millisecond, so a poll happens in the millisecond the level changes and
\* in the millisecond the hold time is reached.  While a press is timed the
\* clock moves to one of the instants of ButtonOffsets.
ButtonWait ==
    /\ pc = "run"
    /\ IF ui.button_state = "PRESSED"
       THEN \E o \in ButtonOffsets :
               /\ ui.button_press_time + o > ui.now_ms
               /\ ui' = [ui EXCEPT !.now_ms = ui.button_press_time + o]
       ELSE /\ ui.now_ms + ButtonIdleStep <= ButtonHorizon
            /\ ui' = [ui EXCEPT !.now_ms = @ + ButtonIdleStep]
    /\ obs' = [obs EXCEPT !.op = "wait", !.kind = "NONE"]
    /\ UNCHANGED <<player, i2c_midi_ctx, pca_ctx, settings, eeprom, mgr, time_us, pc, rx>>

\* The events of the press being followed: the record starts again when a
\* poll in the idle state finds the button pressed.
EventsOfPress(u, events, event) ==
    IF u.button_state = "IDLE" THEN <<>>
    ELSE IF event = "NONE" THEN events ELSE Append(events, event)

\* The calls of the registered callback for the press being followed.
CallsOfPress(u, calls, event) ==
    IF u.button_state = "IDLE" THEN 0
    ELSE IF event # "NONE" /\ u.button_callback THEN calls + 1 ELSE calls

\* One call of button_update from the main loop.
ButtonPoll ==
    /\ \E r \in {button_update(World(ui, i2c_midi_ctx, settings, eeprom), ui.is_pressed,
                               mgr, TRUE, NumChunks(SettingsSize))} :
          /\ ui' = r.ui
          /\ i2c_midi_ctx' = r.ctx
          /\ settings' = r.settings
          /\ eeprom' = r.mem
          /\ obs' = [obs EXCEPT !.op = "poll", !.kind = r.event,
                                !.cmds = EventsOfPress(ui, obs.cmds, r.event),
                                !.index = CallsOfPress(ui, obs.index, r.event)]
    /\ pc' = "run"
    /\ UNCHANGED <<player, pca_ctx, mgr, time_us, rx>>

NextButton == ButtonPress \/ ButtonRelease \/ ButtonWait \/ ButtonPoll

SpecButton == InitButton /\ [][NextButton]_vars

\* The time since the press was observed, as the poll about to happen
\* measures it.
PressDuration == ui.now_ms - ui.button_press_time

(* C36: for each press observed by successive polls of button_update: a      *)
(* release observed before 50 ms gives no event; a release observed after at *)
(* least 50 ms and before 3000 ms gives exactly one SHORT_PRESS; a press of  *)
(* 3000 ms or more gives exactly one LONG_PRESS, at the first poll at or     *)
(* after 3000 ms, then exactly one RELEASED at the release and no            *)
(* SHORT_PRESS; the callback is called once for every event.                 *)
C36_ButtonEventProtocol ==
    [][(obs'.op = "poll" /\ ui.button_state \in {"PRESSED", "HELD"})
         => /\ obs'.index = Len(obs'.cmds)
            /\ (PressDuration >= BUTTON_HOLD_TIME_MS
                  => /\ obs'.cmds \in {<<"LONG_PRESS">>, <<"LONG_PRESS", "RELEASED">>}
                     /\ (obs.cmds = <<>> => obs'.kind = "LONG_PRESS"))
            /\ (~ui.is_pressed
                  => /\ (PressDuration < BUTTON_DEBOUNCE_MS => obs'.cmds = <<>>)
                     /\ (PressDuration >= BUTTON_DEBOUNCE_MS
                         /\ PressDuration < BUTTON_HOLD_TIME_MS
                           => obs'.cmds = <<"SHORT_PRESS">>)
                     /\ (PressDuration >= BUTTON_HOLD_TIME_MS
                           => obs'.cmds = <<"LONG_PRESS", "RELEASED">>))
            /\ (ui.is_pressed /\ PressDuration < BUTTON_HOLD_TIME_MS
                  => obs'.cmds = <<>>)]_vars

(* C36, as the polls decide it: a release observed less than 50 ms after the *)
(* press gives no event; a release observed 50 ms or more after the press,   *)
(* before any poll has found the button pressed at 3000 ms or more, gives    *)
(* exactly one SHORT_PRESS, also when it is observed at 3000 ms or later; the *)
(* first poll that finds the button still pressed at 3000 ms or more gives   *)
(* exactly one LONG_PRESS, and the poll that then observes the release gives *)
(* exactly one RELEASED and no SHORT_PRESS; the callback is called once for  *)
(* every event.                                                              *)
C36_ButtonEventProtocolAsPolled ==
    [][(obs'.op = "poll" /\ ui.button_state \in {"PRESSED", "HELD"})
         => /\ obs'.index = Len(obs'.cmds)
            /\ (ui.button_state = "PRESSED" /\ ~ui.is_pressed
                  => /\ (PressDuration < BUTTON_DEBOUNCE_MS
                           => obs'.cmds = <<>> /\ obs'.kind = "NONE")
                     /\ (PressDuration >= BUTTON_DEBOUNCE_MS
                           => obs'.cmds = <<"SHORT_PRESS">> /\ obs'.kind = "SHORT_PRESS"))
            /\ (ui.button_state = "PRESSED" /\ ui.is_pressed
                  => /\ (PressDuration < BUTTON_HOLD_TIME_MS
                           => obs'.cmds = <<>> /\ obs'.kind = "NONE")
                     /\ (PressDuration >= BUTTON_HOLD_TIME_MS
                           => obs'.cmds = <<"LONG_PRESS">> /\ obs'.kind = "LONG_PRESS"))
            /\ (ui.button_state = "HELD"
                  => /\ PressDuration >= BUTTON_HOLD_TIME_MS
                     /\ (ui.is_pressed
                           => obs'.cmds = <<"LONG_PRESS">> /\ obs'.kind = "NONE")
                     /\ (~ui.is_pressed
                           => obs'.cmds = <<"LONG_PRESS", "RELEASED">>
                              /\ obs'.kind = "RELEASED"))]_vars

\* A press held past the hold time has been let go and a short press was
\* seen before it: the menu was entered by the long press.
C36_Witness ==
    /\ obs.op = "poll" /\ obs.kind = "RELEASED"
    /\ obs.cmds = <<"LONG_PRESS", "RELEASED">> /\ obs.index = 2
    /\ ui.button_state = "IDLE" /\ ui.menu_active
    /\ ui.button_last_activity > 0

----------------------------------------------------------------------------
(* The menu, driven by the button's events (SpecMenu) *)

\* The stored records the device is started from.
MenuRecords == {BaseRecord, FullRecord}

\* The number of button events and calls followed.
MaxPresses == 17

\* The clock is not followed in this specification: a call returns with the
\* statics its sleeps leave, at the same time.
Unclocked(u) == [u EXCEPT !.now_ms = 0]

InitMenu ==
    /\ \E rec \in MenuRecords : InitMain(rec, TRUE)
    /\ pc = "run"
    /\ obs = [NoObs EXCEPT !.op = "menu_init"]

\* The World a call has returned becomes the state; obs.index counts the
\* calls made so far, up to MaxPresses.
MenuReturns(op, r) ==
    /\ obs.index < MaxPresses
    /\ ui' = Unclocked(r.ui)
    /\ i2c_midi_ctx' = r.ctx
    /\ settings' = r.settings
    /\ eeprom' = r.mem
    /\ obs' = [NoObs EXCEPT !.op = op, !.index = obs.index + 1]
    /\ UNCHANGED <<player, pca_ctx, mgr, time_us, pc, rx>>

\* button_update calls handle_button_event with a short press.
MenuShortPress ==
    \E r \in {handle_button_event(World(ui, i2c_midi_ctx, settings, eeprom),
                                  "SHORT_PRESS", mgr, TRUE, NumChunks(SettingsSize))} :
        MenuReturns("short_press", r)

\* button_update calls handle_button_event with a long press.
MenuLongPress ==
    \E pages_ok \in HandlerPageOutcomes :
        \E r \in {handle_button_event(World(ui, i2c_midi_ctx, settings, eeprom),
                                      "LONG_PRESS", mgr, TRUE, pages_ok)} :
            MenuReturns("long_press", r)

\* button_update calls handle_button_event with the release after a hold.
MenuReleased ==
    \E r \in {handle_button_event(World(ui, i2c_midi_ctx, settings, eeprom),
                                  "RELEASED", mgr, TRUE, NumChunks(SettingsSize))} :
        MenuReturns("released", r)

\* menu_next and menu_execute called while the menu is not active.
MenuNextInactive ==
    /\ ~menu_is_active(ui)
    /\ \E r \in {[World(ui, i2c_midi_ctx, settings, eeprom) EXCEPT !.ui = menu_next(@)]} :
          MenuReturns("menu_next", r)

MenuExecuteInactive ==
    /\ ~menu_is_active(ui)
    /\ \E r \in {menu_execute(World(ui, i2c_midi_ctx, settings, eeprom), mgr, TRUE,
                              NumChunks(SettingsSize))} :
          MenuReturns("menu_execute", r)

NextMenu ==
    MenuShortPress \/ MenuLongPress \/ MenuReleased \/ MenuNextInactive \/ MenuExecuteInactive

SpecMenu == InitMenu /\ [][NextMenu]_vars

\* The sub-modes exclude each other and belong to the active menu.
SubModesWithinMenu(u) ==
    /\ ~(u.channel_selection_active /\ u.settings_view_active)
    /\ (u.channel_selection_active => u.menu_active)
    /\ (u.settings_view_active => u.menu_active)

(* C38: in every state reached through button events the channel selection  *)
(* and the settings view are never both active and each implies that the     *)
(* menu is active; the menu is only left with both sub-modes inactive; and   *)
(* menu_next and menu_execute change nothing while the menu is inactive.     *)
C38_SubModesWithinMenu ==
    /\ SubModesWithinMenu(ui)
    /\ [][/\ SubModesWithinMenu(ui')
          /\ (ui.menu_active /\ ~ui'.menu_active
                => /\ ~ui.channel_selection_active /\ ~ui.settings_view_active
                   /\ ~ui'.channel_selection_active /\ ~ui'.settings_view_active)
          /\ (obs'.op \in {"menu_next", "menu_execute"}
                => UNCHANGED <<ui, i2c_midi_ctx, settings, eeprom>>)]_vars

\* The settings view has been scrolled to its end, and before that the menu
\* was gone through up to the option that opens the view.
C38_Witness ==
    /\ ui.menu_active /\ ui.settings_view_active /\ ~ui.channel_selection_active
    /\ ui.current_option = MENU_OPTION_VIEW_SETTINGS
    /\ ui.settings_view_offset = SettingsTotal - SettingsMaxLines
    /\ obs.op = "short_press"

(* C39: while the channel selection is active the selected channel is in     *)
(* 1..16; it starts at the channel the router accepts and a short press      *)
(* takes it to the next channel, from 16 to 1; confirming it makes the       *)
(* router accept note messages exactly on that channel, the status low       *)
(* nibble selected channel - 1.                                              *)
C39_SelectedChannelIsRouterChannel ==
    /\ (ui.channel_selection_active => ui.selected_channel \in 1..16)
    /\ [][/\ (ui'.channel_selection_active => ui'.selected_channel \in 1..16)
          /\ (~ui.channel_selection_active /\ ui'.channel_selection_active
                => AcceptedNibbles(i2c_midi_ctx.config) = {ui'.selected_channel - 1})
          /\ (ui.channel_selection_active /\ obs'.op = "short_press"
                => ui'.selected_channel
                      = IF ui.selected_channel = 16 THEN 1 ELSE ui.selected_channel + 1)
          /\ (ui.channel_selection_active /\ obs'.op = "long_press"
                => AcceptedNibbles(i2c_midi_ctx'.config) = {ui.selected_channel - 1})]_vars

----------------------------------------------------------------------------
(* The main loop and the screensaver's timer (SpecScreen) *)

\* The time one pass of the main loop may take, in milliseconds: each is
\* less than SCREENSAVER_TIMEOUT_MS less BUTTON_HOLD_TIME_MS.
ScreenSteps == {3000, 24000}
ScreenHorizon == 36000

\* The note message the host may send during a pass of the main loop.
ScreenNote == <<MIDI_NOTE_ON + 4, 48, RouteVelocity>>

InitScreen ==
    /\ \E oled_ok \in BOOLEAN : InitMain(BaseRecord, oled_ok)
    /\ pc = "button"
    /\ obs = [NoObs EXCEPT !.op = "display_init"]

\* timeout_check_callback runs, between any two steps of the main loop; the
\* alarm exists when display_handler_init found the display.
TimerCallback ==
    /\ ui.display_initialized
    /\ ui' = timeout_check_callback(ui)
    /\ obs' = [NoObs EXCEPT !.op = "timer"]
    /\ UNCHANGED <<player, i2c_midi_ctx, pca_ctx, settings, eeprom, mgr, time_us, pc, rx>>

\* The level of the button's pin changes.
ScreenPin ==
    /\ ui' = [ui EXCEPT !.is_pressed = ~@]
    /\ obs' = [NoObs EXCEPT !.op = "pin"]
    /\ UNCHANGED <<player, i2c_midi_ctx, pca_ctx, settings, eeprom, mgr, time_us, pc, rx>>

\* Main loop: button_update.  obs.result tells whether the screensaver was
\* running when it was called.
ScreenButton ==
    /\ pc = "button"
    /\ \E r \in {button_update(World(ui, i2c_midi_ctx, settings, eeprom), ui.is_pressed,
                               mgr, TRUE, NumChunks(SettingsSize))} :
          /\ ui' = r.ui
          /\ i2c_midi_ctx' = r.ctx
          /\ settings' = r.settings
          /\ eeprom' = r.mem
          /\ obs' = [NoObs EXCEPT !.op = "button", !.kind = r.event,
                                  !.result = ui.screensaver_active]
    /\ pc' = "midi"
    /\ UNCHANGED <<player, pca_ctx, mgr, time_us, rx>>

\* Main loop: usb_midi_task finds a note message and calls the callback.
ScreenMidiNote ==
    /\ pc = "midi"
    /\ \E r \in {internal_midi_handler(rx, mgr, i2c_midi_ctx, settings, eeprom,
                                      ScreenNote[1], ScreenNote[2], ScreenNote[3], TRUE,
                                      NumChunks(SettingsSize))} :
          /\ rx' = r.rx
          /\ i2c_midi_ctx' = r.ctx
          /\ settings' = r.settings
          /\ eeprom' = r.mem
    /\ ui' = midi_handler_ui(ui, rx, ScreenNote[1], ScreenNote[3])
    /\ obs' = [NoObs EXCEPT !.op = "midi"]
    /\ pc' = "display"
    /\ UNCHANGED <<player, pca_ctx, mgr, time_us>>

\* Main loop: usb_midi_task finds nothing.
ScreenMidiIdle ==
    /\ pc = "midi"
    /\ obs' = [NoObs EXCEPT !.op = "midi_idle"]
    /\ pc' = "display"
    /\ UNCHANGED <<player, i2c_midi_ctx, pca_ctx, settings, eeprom, mgr, time_us, rx, ui>>

\* Main loop: display_handler_check_timeout.
ScreenDisplay ==
    /\ pc = "display"
    /\ ui' = display_handler_check_timeout(ui)
    /\ obs' = [NoObs EXCEPT !.op = "check_timeout"]
    /\ pc' = "sleep"
    /\ UNCHANGED <<player, i2c_midi_ctx, pca_ctx, settings, eeprom, mgr, time_us, rx>>

\* Main loop: the pass ends; the time it took has passed.
ScreenSleep ==
    /\ pc = "sleep"
    /\ \E ms \in ScreenSteps :
          /\ ui.now_ms + ms <= ScreenHorizon
          /\ ui' = sleep_ms(ui, ms)
    /\ obs' = [NoObs EXCEPT !.op = "sleep"]
    /\ pc' = "button"
    /\ UNCHANGED <<player, i2c_midi_ctx, pca_ctx, settings, eeprom, mgr, time_us, rx>>

NextScreen ==
    \/ TimerCallback \/ ScreenPin \/ ScreenButton \/ ScreenMidiNote \/ ScreenMidiIdle
    \/ ScreenDisplay \/ ScreenSleep

SpecScreen == InitScreen /\ [][NextScreen]_vars

(* C37: in every interleaving of the timer callback with the button, MIDI    *)
(* and display steps of the main loop, the screensaver is never active while *)
(* the menu is active: no step requests a start (screensaver_pending) or     *)
(* carries one out (screensaver_active) while the menu is active, and the    *)
(* step that enters the menu leaves no screensaver running.                  *)
C37_NoScreensaverInMenu ==
    /\ ~(ui.screensaver_active /\ ui.menu_active)
    /\ [][/\ ~(ui'.screensaver_active /\ ui'.menu_active)
          /\ (~ui.screensaver_pending /\ ui'.screensaver_pending
                => ~ui.menu_active /\ ~ui'.menu_active)
          /\ (~ui.screensaver_active /\ ui'.screensaver_active
                => ~ui.menu_active /\ ~ui'.menu_active)
          /\ (~ui.menu_active /\ ui'.menu_active
                => ~ui'.screensaver_active /\ ~ui'.screensaver_pending)]_vars

\* The long press entered the menu while the screensaver was running, and
\* stopped it.
C37_Witness ==
    /\ obs.op = "button" /\ obs.kind = "LONG_PRESS" /\ obs.result
    /\ ui.menu_active /\ ~ui.screensaver_active
    /\ ui.current_option = MENU_OPTION_RESET_DEFAULTS

====
